---- MODULE Spec2Model ----
(***************************************************************************)
(* DentraOS event-dispatch engine: the agent_events queue table            *)
(* (dental_agents/db.py), the idempotency_locks ledger (db.py,             *)
(* idempotency.py) and the worker loop (worker.py).                        *)
(*                                                                         *)
(* Time is the database clock NOW(), counted in whole ticks.  Every SQL    *)
(* statement is one atomic step; a function that issues a SELECT and then  *)
(* an UPDATE is two steps, so that statements of concurrent connections    *)
(* interleave the way they do on the server (plain SELECTs take no row     *)
(* lock, an UPDATE ... WHERE id=%s applies to the row as last committed).  *)
(***************************************************************************)
EXTENDS Integers, Sequences, FiniteSets, TLC

\* ---------------------------------------------------------------- bounds
\* rows the table may come to hold; under SpecPair, where two workers race
MaxEvents == 2
MaxPairEvents == 1
MaxTime == 2
\* lock_seconds, retry_delay_sec and the ledger TTLs, in ticks
LockSeconds == 1
RetryDelaySec == 1
DedupeTtl == 2
MaxTtl == 2
MaxCalls == 3
\* a calendar hour in ticks (the day is the 24 hours of DedupeTtl), and the
\* tick enqueues made
HourTicks == 1
MaxTickCalls == 3
\* rows of the appointments table
MaxAppts == 2
MaxNotes == 4
\* event rows in the transaction specification
MaxTxEvents == 3

Workers == {"w1", "w2"}
\* priority: the worker's inventory tick, and enqueue_event's default
Priorities == {30, 50}
\* max_attempts as passed to enqueue_event (int(max_attempts), any integer)
Budgets == {0, 1, 2}
Callers == {"c1", "c2"}
Keys == {"k1"}
NoKey == "none"
\* the recurring ticks of worker.main
Categories == {"inventory_monitor", "revenue_monitor", "case_monitor"}

\* SQL NULL in a time column / in locked_by; the absence of a ledger row
NoTime == 0 - 1
\* the clock of the appointment agent: day 1 is today; 09:10 and 17:20 today
FirstInstant == 1 * 1440 + 550
Instants == {1 * 1440 + 550, 1 * 1440 + 1040}
\* no _detect_conflicts / _suggest_slots call made yet; no handler running
NoDetect == [appt |-> 0, start_dt |-> NoTime, end_dt |-> NoTime, found |-> <<>>,
             min_start_dt |-> NoTime, searched |-> FALSE]
NoSuggest == [called |-> FALSE, appt |-> 0, now_dt |-> NoTime, target_date |-> NoTime, out |-> <<>>]
NoSweep == [st |-> "none", now_dt |-> 0 - 1, rows |-> <<>>, step |-> 0]

NoBooking == [st |-> "none", appt |-> 0, dur |-> 0, out |-> <<>>]
NoRow == 0 - 2
NoOwner == "NULL"
NoError == "NULL"

VARIABLES
    now,      \* NOW()
    events,   \* agent_events: sequence indexed by id (AUTO_INCREMENT)
    locks,    \* idempotency_locks: lock_key -> expires_at, or NoRow
    pc,       \* worker -> position in worker.main's loop
    ev,       \* worker -> id of the row its claim selected / returned, 0 if none
    dead,     \* worker -> should_dead as computed by its running mark_failed
    acq,      \* caller -> its running idempotency.claim call
    log,      \* completed ledger calls: what each returned, and when
    last_monitor, \* worker -> tick category -> time of its last tick enqueue
    returned, \* worker -> the agents whose handle returned, this iteration
    appointments, \* the appointments table: sequence indexed by id
    wallclock,    \* datetime.now(tz=IST), an instant
    conflicts,    \* the last _detect_conflicts call and what it returned
    suggested,    \* the last _suggest_slots call and what it returned
    booking,      \* worker -> the appointment handler it is running
    notifications, \* the notifications table: the monitor sweep's rows, in order
    notify_locks,  \* idempotency_locks: the dedupe keys of notifications
    sweep,         \* worker -> the appointment_monitor_sweep call it is running
    tx             \* worker -> the lock rows its connection inserted and has not
                   \* committed or rolled back: pairs <<lock_key, expires_at>>

queueVars == <<now, events, locks, pc, ev, dead, acq, log, last_monitor, returned>>

apptVars == <<appointments, wallclock, conflicts, suggested, booking,
             notifications, notify_locks, sweep, tx>>

\* what only the monitor sweep and the open transactions read and write
sideVars == <<notifications, notify_locks, sweep, tx>>

vars == <<queueVars, apptVars>>

\* ------------------------------------------------------- agent_events schema
\* status enum of the table, as spec section 3 gives it
EnumVals == {"NEW", "PROCESSING", "DONE", "FAILED", "DEAD"}

_event_status_pending == IF "NEW" \in EnumVals THEN "NEW"
                         ELSE IF "PENDING" \in EnumVals THEN "PENDING" ELSE "NEW"

_event_status_processing == "PROCESSING"

_event_status_done == "DONE"

_event_status_failed == "FAILED"

_event_status_dead == IF "DEAD" \in EnumVals THEN "DEAD" ELSE "None"

\* pending_states of claim_next_event: pending, plus PENDING on mixed schemas
PendingStates == {_event_status_pending} \cup ({"PENDING"} \cap EnumVals)

\* ---------------------------------------------------- count_pending_events
\* the count without the available_at condition
count_pending_events_ignoring_available_at(evs, t) ==
    Cardinality({i \in DOMAIN evs :
        /\ evs[i].status \in {_event_status_pending} \cup ({"PENDING"} \cap EnumVals)
        /\ (evs[i].locked_until = NoTime \/ evs[i].locked_until <= t)})

\* SELECT COUNT(*) FROM agent_events WHERE status IN (pending_states)
\*   AND (available_at IS NULL OR available_at <= NOW())
\*   AND (locked_until IS NULL OR locked_until <= NOW())
count_pending_events(evs, t) ==
    Cardinality({i \in DOMAIN evs :
        /\ evs[i].status \in {_event_status_pending} \cup ({"PENDING"} \cap EnumVals)
        /\ (evs[i].available_at = NoTime \/ evs[i].available_at <= t)
        /\ (evs[i].locked_until = NoTime \/ evs[i].locked_until <= t)})

\* ------------------------------------------------------------ claim_next_event
\* the WHERE clause without its available_at condition
Eligible_ignoring_available_at(evs, t) ==
    {i \in DOMAIN evs :
        /\ evs[i].status \in PendingStates
        /\ (evs[i].locked_until = NoTime \/ evs[i].locked_until <= t)}

\* WHERE status IN (pending) AND (available_at IS NULL OR available_at <= NOW())
\*   AND (locked_until IS NULL OR locked_until <= NOW())
Eligible(evs, t) ==
    {i \in DOMAIN evs :
        /\ evs[i].status \in PendingStates
        /\ (evs[i].available_at = NoTime \/ evs[i].available_at <= t)
        /\ (evs[i].locked_until = NoTime \/ evs[i].locked_until <= t)}

\* ORDER BY priority DESC, id ASC: row a sorts before row b
OrderById(evs, a, b) == a < b

OrderBefore(evs, a, b) ==
    \/ evs[a].priority > evs[b].priority
    \/ evs[a].priority = evs[b].priority /\ a < b

\* SELECT ... LIMIT 1; 0 when fetchone() is None
SelectCandidate(evs, t) ==
    IF Eligible(evs, t) = {} THEN 0
    ELSE CHOOSE i \in Eligible(evs, t) :
            \A j \in Eligible(evs, t) \ {i} : OrderBefore(evs, i, j)

\* the UPDATE without last_error=NULL
ClaimRow_keeping_error(r, w, t) ==
    [r EXCEPT !.status = _event_status_processing,
              !.locked_by = w,
              !.locked_until = t + LockSeconds,
              !.attempts = @ + 1]

\* UPDATE agent_events SET status=PROCESSING, locked_by, locked_until,
\*   attempts=COALESCE(attempts,0)+1, last_error=NULL WHERE id=%s
ClaimRow(r, w, t) ==
    [r EXCEPT !.status = _event_status_processing,
              !.locked_by = w,
              !.locked_until = t + LockSeconds,
              !.attempts = @ + 1,
              !.last_error = NoError]

\* ------------------------------------------------------------------- mark_done
MarkDoneCounting(r) ==
    [r EXCEPT !.status = _event_status_done,
              !.locked_by = NoOwner,
              !.locked_until = NoTime,
              !.attempts = @ + 1,
              !.last_error = NoError]

MarkDoneRow(r) ==
    [r EXCEPT !.status = _event_status_done,
              !.locked_by = NoOwner,
              !.locked_until = NoTime,
              !.last_error = NoError]

\* ----------------------------------------------------------------- mark_failed
\* should_dead: max_attempts and attempts is not None and attempts >= max_attempts
\* (a max_attempts of 0 or NULL is falsy)
ShouldDead(r) == r.max_attempts # 0 /\ r.attempts >= r.max_attempts

\* status_to_set = dead if (should_dead and dead) else (failed if should_dead else pending)
StatusToSet(sd) ==
    IF sd /\ _event_status_dead # "None" THEN _event_status_dead
    ELSE IF sd THEN _event_status_failed ELSE _event_status_pending

\* UPDATE agent_events SET status, locked_by=NULL, locked_until=NULL, last_error
\*   [, available_at=NOW()+retry_delay_sec when not should_dead] WHERE id=%s
MarkFailedRow(r, sd, t) ==
    [r EXCEPT !.status = StatusToSet(sd),
              !.locked_by = NoOwner,
              !.locked_until = NoTime,
              !.last_error = "err",
              !.available_at = IF sd THEN @ ELSE t + RetryDelaySec]

\* ------------------------------------------------------------------ the ledger
\* lock_key carries a uniqueness constraint: an INSERT of a key that has a row raises
UniqueViolation(lk, k) == lk[k] # NoRow

\* _insert_idempotency_lock: a bare INSERT (no purge before it), True unless it
\* raises; expires_at = now + ttl_hours.  Keys are shorter than its key[:190]
InsertLockOk(lk, k) == ~UniqueViolation(lk, k)

InsertLock(lk, k, ttl, t) ==
    IF InsertLockOk(lk, k) THEN [lk EXCEPT ![k] = t + ttl] ELSE lk

\* idempotency.claim: INSERT ... VALUES (key, WORKER_ID, NOW() + ttl_seconds);
\* return True, or False when the INSERT raises
ClaimInsertOk(lk, k) == ~UniqueViolation(lk, k)

ClaimInsert(lk, k, ttl, t) ==
    IF ClaimInsertOk(lk, k) THEN [lk EXCEPT ![k] = t + ttl] ELSE lk

\* idempotency.claim: DELETE FROM idempotency_locks WHERE lock_key=%s AND expires_at <= NOW()
PurgeAlways(lk, k, t) == [lk EXCEPT ![k] = NoRow]

PurgeExpired(lk, k, t) ==
    IF lk[k] # NoRow /\ lk[k] <= t THEN [lk EXCEPT ![k] = NoRow] ELSE lk

\* ------------------------------------------------------------- tick keys
\* time.strftime("%Y-%m-%d-%H") for the inventory and revenue ticks,
\* "%Y-%m-%d" for the case tick: the calendar hour / day the clock is in
DayTicks == DedupeTtl

BucketLen(c) == IF c = "case_monitor" THEN DayTicks ELSE HourTicks

Bucket(c, t) == t \div BucketLen(c)

\* dedupe = f"inventory_monitor:{ts}" and its like
TickKeyPerInstant(c, t) == c \o ":" \o ToString(t)

TickKey(c, t) == c \o ":" \o ToString(Bucket(c, t))

TickKeys == {TickKey(c, t) : c \in Categories, t \in 0..MaxTime}

\* a caller that is not inside idempotency.claim
NoCall == [st |-> "none", key |-> NoKey, purged_at |-> 0]

\* --------------------------------------------------------------- enqueue_event
NewRow(ty, p, m, t) ==
    [event_type |-> ty, status |-> "NEW", priority |-> p, attempts |-> 0, max_attempts |-> m,
     available_at |-> t, locked_by |-> NoOwner, locked_until |-> NoTime,
     last_error |-> NoError]

\* whether enqueue_event goes on to the INSERT INTO agent_events
EnqueueIgnoresLock(lk, k) == TRUE

EnqueueInserts(lk, k) == k = NoKey \/ InsertLockOk(lk, k)

\* returns lastrowid, or 0 when the dedupe key is already locked
EnqueueResult(evs, lk, k) == IF EnqueueInserts(lk, k) THEN Len(evs) + 1 ELSE 0

EnqueueEvent(ty, k, p, m) ==
    /\ locks' = IF k = NoKey THEN locks ELSE InsertLock(locks, k, DedupeTtl, now)
    /\ events' = IF EnqueueInserts(locks, k)
                 THEN Append(events, NewRow(ty, p, m, now)) ELSE events

\* ----------------------------------------------------------------- worker.main
\* producers (the web backend, other components) enqueue while the workers
\* run; the table is kept to cap rows.  Enqueues that carry a dedupe key, the
\* worker's own ticks among them, are LedgerEnqueue's.
ProduceOf(types, prios, cap) ==
    \E ty \in types, p \in prios, m \in Budgets :
        /\ Len(events) < cap
        /\ EnqueueEvent(ty, NoKey, p, m)
        /\ UNCHANGED <<now, pc, ev, dead, acq, log, last_monitor, returned, apptVars>>

Produce(cap) == ProduceOf({"AppointmentCreated"}, Priorities, cap)

Enqueue == Produce(MaxEvents)

\* claim_next_event, the SELECT.  No row: claim returns None, the loop sleeps
\* poll_ms and continues at its top (the worker stays "idle")
ClaimSelect(w) ==
    /\ pc[w] = "idle"
    /\ LET c == SelectCandidate(events, now) IN
        /\ ev' = [ev EXCEPT ![w] = c]
        /\ pc' = [pc EXCEPT ![w] = IF c = 0 THEN "idle" ELSE "selected"]
    /\ UNCHANGED <<now, events, locks, dead, acq, log, last_monitor, returned, apptVars>>

\* claim_next_event, the UPDATE and commit: the event is returned to the loop
ClaimUpdate(w) ==
    /\ pc[w] = "selected"
    /\ events' = [events EXCEPT ![ev[w]] = ClaimRow(@, w, now)]
    /\ pc' = [pc EXCEPT ![w] = "handling"]
    /\ UNCHANGED <<now, locks, ev, dead, acq, log, last_monitor, returned, apptVars>>

\* the loop going on to its next iteration without mark_done
HandleDone_without_mark(w) ==
    /\ pc[w] = "handling"
    /\ pc' = [pc EXCEPT ![w] = "idle"]
    /\ ev' = [ev EXCEPT ![w] = 0]
    /\ returned' = [returned EXCEPT ![w] = <<>>]
    /\ UNCHANGED <<now, events, locks, dead, acq, log, last_monitor, apptVars>>

\* no agent registered, or every agent.handle returned: mark_done
HandleDone(w) ==
    /\ pc[w] = "handling"
    /\ events' = [events EXCEPT ![ev[w]] = MarkDoneRow(@)]
    /\ pc' = [pc EXCEPT ![w] = "idle"]
    /\ ev' = [ev EXCEPT ![w] = 0]
    /\ returned' = [returned EXCEPT ![w] = <<>>]
    /\ UNCHANGED <<now, locks, dead, acq, log, last_monitor, apptVars>>

\* an agent raised: safe_rollback, then mark_failed reads attempts, max_attempts
HandleFail(w) ==
    /\ pc[w] = "handling"
    /\ dead' = [dead EXCEPT ![w] = ShouldDead(events[ev[w]])]
    /\ pc' = [pc EXCEPT ![w] = "failing"]
    /\ UNCHANGED <<now, events, locks, ev, acq, log, last_monitor, returned, apptVars>>

\* mark_failed, with the next attempt resuming after the agents that returned
MarkFailedUpdate_keeping_returned(w) ==
    /\ pc[w] = "failing"
    /\ events' = [events EXCEPT ![ev[w]] = MarkFailedRow(@, dead[w], now)]
    /\ pc' = [pc EXCEPT ![w] = "idle"]
    /\ ev' = [ev EXCEPT ![w] = 0]
    /\ dead' = [dead EXCEPT ![w] = FALSE]
    /\ UNCHANGED <<now, locks, acq, log, last_monitor, returned, apptVars>>

\* mark_failed, the UPDATE and commit
MarkFailedUpdate(w) ==
    /\ pc[w] = "failing"
    /\ events' = [events EXCEPT ![ev[w]] = MarkFailedRow(@, dead[w], now)]
    /\ pc' = [pc EXCEPT ![w] = "idle"]
    /\ ev' = [ev EXCEPT ![w] = 0]
    /\ dead' = [dead EXCEPT ![w] = FALSE]
    /\ returned' = [returned EXCEPT ![w] = <<>>]
    /\ UNCHANGED <<now, locks, acq, log, last_monitor, apptVars>>

\* the process dies or hangs inside a handler; some other worker keeps polling
Crash(w) ==
    /\ pc[w] = "handling"
    /\ \E o \in Workers \ {w} : pc[o] # "crashed"
    /\ pc' = [pc EXCEPT ![w] = "crashed"]
    /\ UNCHANGED <<now, events, locks, ev, dead, acq, log, last_monitor, returned, apptVars>>

Tick ==
    /\ now < MaxTime
    /\ now' = now + 1
    /\ UNCHANGED <<events, locks, pc, ev, dead, acq, log, last_monitor, returned, apptVars>>

WorkerStep(w) ==
    \/ ClaimSelect(w)
    \/ ClaimUpdate(w)
    \/ HandleDone(w)
    \/ HandleFail(w)
    \/ MarkFailedUpdate(w)

Init ==
    /\ now = 0
    /\ events = <<>>
    /\ locks = [k \in Keys \cup TickKeys |-> NoRow]
    /\ pc = [w \in Workers |-> "idle"]
    /\ ev = [w \in Workers |-> 0]
    /\ dead = [w \in Workers |-> FALSE]
    /\ acq = [c \in Callers |-> NoCall]
    /\ log = {}
    /\ last_monitor = [w \in Workers |-> [c \in Categories |-> NoTime]]
    /\ returned = [w \in Workers |-> <<>>]
    /\ appointments = <<>>
    /\ wallclock = FirstInstant
    /\ conflicts = NoDetect
    /\ suggested = NoSuggest
    /\ booking = [w \in Workers |-> NoBooking]
    /\ notifications = <<>>
    /\ notify_locks = {}
    /\ sweep = [w \in Workers |-> NoSweep]
    /\ tx = [w \in Workers |-> {}]

Next ==
    \/ Enqueue
    \/ Tick
    \/ \E w \in Workers : WorkerStep(w)
    \/ \E w \in Workers : Crash(w)

Spec == Init /\ [][Next]_vars

\* worker processes that have not crashed keep looping, and the clock advances
FairSpec == Spec /\ WF_vars(Tick) /\ \A w \in Workers : WF_vars(WorkerStep(w))

\* one worker process alone on the table
SoloWorker == CHOOSE w \in Workers : TRUE

SoloNext ==
    \/ Enqueue
    \/ Tick
    \/ WorkerStep(SoloWorker)

SpecSolo == Init /\ [][SoloNext]_vars

\* the workers racing for the rows of a short table
PairEnqueue == Produce(MaxPairEvents)

PairNext ==
    \/ PairEnqueue
    \/ Tick
    \/ \E w \in Workers : WorkerStep(w)
    \/ \E w \in Workers : Crash(w)

SpecPair == Init /\ [][PairNext]_vars

\* ------------------------------------------------- the ledger under concurrency
\* one completed call, as the log keeps it: ret is the value returned (for
\* idempotency.claim 1 = True, 0 = False), [at, until) the life of the lock it took
LogEntry(op, by, k, tp, ret, ttl) ==
    [n |-> Cardinality(log) + 1, op |-> op, by |-> by, key |-> k,
     purged_at |-> tp, at |-> now, ret |-> ret, until |-> now + ttl]

\* calls completed or under way
Calls == Cardinality(log) + Cardinality({c \in Callers : acq[c].st # "none"})

\* idempotency.claim, first statement: purge the key's row if it has expired
AcquirePurge(c, k) ==
    /\ acq[c].st = "none"
    /\ Calls < MaxCalls
    /\ locks' = PurgeExpired(locks, k, now)
    /\ acq' = [acq EXCEPT ![c] = [st |-> "purged", key |-> k, purged_at |-> now]]
    /\ UNCHANGED <<now, events, pc, ev, dead, log, last_monitor, returned, apptVars>>

\* idempotency.claim, second statement: the INSERT; True, or False if it raises
AcquireInsert(c, ttl) ==
    /\ acq[c].st = "purged"
    /\ locks' = ClaimInsert(locks, acq[c].key, ttl, now)
    /\ log' = log \cup {LogEntry("try_acquire", c, acq[c].key, acq[c].purged_at,
                                 IF ClaimInsertOk(locks, acq[c].key) THEN 1 ELSE 0, ttl)}
    /\ acq' = [acq EXCEPT ![c] = NoCall]
    /\ UNCHANGED <<now, events, pc, ev, dead, last_monitor, returned, apptVars>>

\* enqueue_event with a dedupe key or without, its return value logged
LedgerEnqueue ==
    \E k \in Keys \cup {NoKey}, p \in {50}, m \in {2} :
        /\ Calls < MaxCalls
        /\ EnqueueInserts(locks, k) => Len(events) < MaxEvents
        /\ EnqueueEvent("AppointmentCreated", k, p, m)
        /\ log' = log \cup {LogEntry("enqueue", "producer", k, now,
                                     EnqueueResult(events, locks, k), DedupeTtl)}
        /\ UNCHANGED <<now, pc, ev, dead, acq, last_monitor, returned, apptVars>>

LedgerNext ==
    \/ LedgerEnqueue
    \/ Tick
    \/ \E c \in Callers, k \in Keys : AcquirePurge(c, k)
    \/ \E c \in Callers, ttl \in 1..MaxTtl : AcquireInsert(c, ttl)

SpecLedger == Init /\ [][LedgerNext]_vars

\* ------------------------------------------------------- the recurring ticks
\* "InventoryMonitorTick", "RevenueMonitorTick", "CaseMonitorTick"
TickType(c) ==
    IF c = "inventory_monitor" THEN "InventoryMonitorTick"
    ELSE IF c = "revenue_monitor" THEN "RevenueMonitorTick" ELSE "CaseMonitorTick"

TickPriority(c) ==
    IF c = "inventory_monitor" THEN 30 ELSE IF c = "revenue_monitor" THEN 40 ELSE 45

\* max(60, monitor_interval_min * 60) seconds: by default 60 minutes for the
\* inventory and revenue ticks, 1440 minutes for the case tick
MonitorInterval(c) == IF c = "case_monitor" THEN DayTicks ELSE HourTicks

\* if now_t - last_monitor >= interval: enqueue_event(..., dedupe_key=dedupe);
\* last_monitor = now_t.  last_monitor starts at 0.0, so the first iteration of
\* a process always enqueues
MonitorTick(w, c) ==
    /\ pc[w] = "idle"
    /\ Cardinality(log) < MaxTickCalls
    /\ last_monitor[w][c] = NoTime \/ now - last_monitor[w][c] >= MonitorInterval(c)
    /\ EnqueueEvent(TickType(c), TickKey(c, now), TickPriority(c), 2)
    /\ log' = log \cup {LogEntry(c, w, TickKey(c, now), now,
                                 EnqueueResult(events, locks, TickKey(c, now)), DedupeTtl)}
    /\ last_monitor' = [last_monitor EXCEPT ![w][c] = now]
    /\ UNCHANGED <<now, pc, ev, dead, acq, returned, apptVars>>

\* the worker process is started again: main() sets its last_* to 0.0
Restart(w) ==
    /\ pc[w] = "idle"
    /\ last_monitor' = [last_monitor EXCEPT ![w] = [c \in Categories |-> NoTime]]
    /\ UNCHANGED <<now, events, locks, pc, ev, dead, acq, log, returned, apptVars>>

TicksNext ==
    \/ Tick
    \/ \E w \in Workers, c \in Categories : MonitorTick(w, c)
    \/ \E w \in Workers : Restart(w)

SpecTicks == Init /\ [][TicksNext]_vars

\* ---- enqueue_event and the transaction of its connection
\* conn.in_transaction reads False: nothing is rolled back
safe_rollback_not_in_transaction(open) == open

\* safe_rollback(conn): the rows the connection inserted and did not commit
\* are gone
safe_rollback(open) == {}

\* safe_commit(conn): the lock rows the connection inserted become rows of
\* idempotency_locks
safe_commit(lk, open) ==
    [k \in DOMAIN lk |->
        IF \E p \in open : p[1] = k THEN (CHOOSE p \in open : p[1] = k)[2]
        ELSE lk[k]]

\* another connection inserted the key and has not ended its transaction:
\* the INSERT waits for it
LockWait(w, k) == \E o \in Workers \ {w} : \E p \in tx[o] : p[1] = k

\* enqueue_event(conn, ..., dedupe_key=dedupe) returns: safe_rollback, the
\* lock INSERT, the event INSERT unless the lock INSERT failed, safe_commit;
\* then last_monitor = now_t
TxEnqueue(w, c) ==
    LET open == safe_rollback(tx[w])
        k == TickKey(c, now)
        ok == InsertLockOk(locks, k) /\ ~\E p \in open : p[1] = k
    IN /\ pc[w] = "idle"
       /\ last_monitor[w][c] = NoTime \/ now - last_monitor[w][c] >= MonitorInterval(c)
       /\ ~LockWait(w, k)
       /\ ok => Len(events) < MaxTxEvents
       /\ locks' = safe_commit(IF ok THEN InsertLock(locks, k, DedupeTtl, now)
                               ELSE locks, open)
       /\ events' = IF ok THEN Append(events, NewRow(TickType(c), TickPriority(c), 2, now))
                    ELSE events
       /\ tx' = [tx EXCEPT ![w] = {}]
       /\ last_monitor' = [last_monitor EXCEPT ![w][c] = now]
       /\ UNCHANGED <<now, pc, ev, dead, acq, log, returned, appointments, wallclock,
                      conflicts, suggested, booking, notifications, notify_locks, sweep>>

\* the same call, but INSERT INTO agent_events raises after the lock INSERT:
\* the exception leaves enqueue_event with the transaction open, main() logs
\* it and does not set last_monitor
TxEnqueueRaises(w, c) ==
    LET open == safe_rollback(tx[w])
        k == TickKey(c, now)
    IN /\ pc[w] = "idle"
       /\ last_monitor[w][c] = NoTime \/ now - last_monitor[w][c] >= MonitorInterval(c)
       /\ ~LockWait(w, k)
       /\ InsertLockOk(locks, k) /\ ~\E p \in open : p[1] = k
       /\ tx' = [tx EXCEPT ![w] = open \cup {<<k, now + DedupeTtl>>}]
       /\ UNCHANGED <<queueVars, appointments, wallclock, conflicts, suggested,
                      booking, notifications, notify_locks, sweep>>

\* "Ensure no stuck tx from prior loop": safe_rollback(conn) after the ticks
TxLoopRollback(w) ==
    /\ pc[w] = "idle"
    /\ tx[w] # {}
    /\ tx' = [tx EXCEPT ![w] = safe_rollback(tx[w])]
    /\ UNCHANGED <<queueVars, appointments, wallclock, conflicts, suggested,
                   booking, notifications, notify_locks, sweep>>

TxNext ==
    \/ Tick
    \/ \E w \in Workers, c \in Categories : TxEnqueue(w, c)
    \/ \E w \in Workers, c \in Categories : TxEnqueueRaises(w, c)
    \/ \E w \in Workers : TxLoopRollback(w)

SpecTx == Init /\ [][TxNext]_vars

\* ------------------------------------------- the loop, handler by handler
\* event types by the prefix _dispatch_agents tests with startswith
AppointmentTypes == {"AppointmentCreated", "AppointmentCompleted",
                     "AppointmentAutoScheduleRequested"}
InventoryTypes == {"InventoryMonitorTick"}
RevenueTypes == {"RevenueMonitorTick"}
CaseTypes == {"CaseMonitorTick"}

_dispatch_agents(event_type) ==
    IF event_type \in AppointmentTypes
    THEN <<"AppointmentAgent">>
         \o (IF event_type \in {"AppointmentCreated", "AppointmentCompleted"}
             THEN <<"RevenueAgent">> ELSE <<>>)
         \o (IF event_type = "AppointmentCompleted" THEN <<"InventoryAgent">> ELSE <<>>)
    ELSE IF event_type = "VisitConsumablesUpdated" THEN <<"InventoryAgent">>
    ELSE IF event_type \in InventoryTypes THEN <<"InventoryAgent">>
    ELSE IF event_type \in RevenueTypes THEN <<"RevenueAgent">>
    ELSE IF event_type \in CaseTypes THEN <<"CaseTrackingAgent">>
    ELSE <<>>

\* the event types enqueued for the loop: two agents, one agent, none
LoopTypes == {"AppointmentCreated", "CaseMonitorTick", "AgentRunRequested"}

\* agents = _dispatch_agents(event_type) of the event worker w holds
Agents(w) == _dispatch_agents(events[ev[w]].event_type)

\* the for loop over agents has run to its end (at once when agents is empty)
SomeReturned(w) == Agents(w) = <<>> \/ Len(returned[w]) >= 1

AllReturned(w) == Len(returned[w]) = Len(Agents(w))

\* agent.handle(conn, ...) of the next agent returns
AgentReturns(w) ==
    /\ pc[w] = "handling"
    /\ ~AllReturned(w)
    /\ returned' = [returned EXCEPT ![w] = Append(@, Agents(w)[Len(@) + 1])]
    /\ UNCHANGED <<now, events, locks, pc, ev, dead, acq, log, last_monitor, apptVars>>

\* agent.handle of the next agent raises: except Exception, safe_rollback,
\* mark_failed
AgentRaises(w) == pc[w] = "handling" /\ ~AllReturned(w) /\ HandleFail(w)

\* mark_done(conn, event_id), after the for loop or with no agent
LoopMarkDone(w) == pc[w] = "handling" /\ AllReturned(w) /\ HandleDone(w)

\* mark_done raises (connection lost, lock wait timeout): it is called inside
\* the try, so the same except clause runs mark_failed
MarkDoneRaises(w) == pc[w] = "handling" /\ AllReturned(w) /\ HandleFail(w)

\* mark_failed raises: it is called inside the except clause, nothing catches
\* the exception, main() leaves its while loop through finally: conn.close()
MarkFailedRaises(w) ==
    /\ pc[w] = "failing"
    /\ pc' = [pc EXCEPT ![w] = "exited"]
    /\ UNCHANGED <<now, events, locks, ev, dead, acq, log, last_monitor, returned, apptVars>>

\* claim_next_event raises at its UPDATE: except Exception, safe_rollback,
\* sleep, continue
ClaimRaises(w) ==
    /\ pc[w] = "selected"
    /\ pc' = [pc EXCEPT ![w] = "idle"]
    /\ ev' = [ev EXCEPT ![w] = 0]
    /\ UNCHANGED <<now, events, locks, dead, acq, log, last_monitor, returned, apptVars>>

LoopStep(w) ==
    \/ ClaimSelect(w)
    \/ ClaimUpdate(w)
    \/ ClaimRaises(w)
    \/ AgentReturns(w)
    \/ AgentRaises(w)
    \/ LoopMarkDone(w)
    \/ MarkDoneRaises(w)
    \/ MarkFailedUpdate(w)
    \/ MarkFailedRaises(w)

\* enqueued at enqueue_event's default priority
LoopEnqueue == ProduceOf(LoopTypes, {50}, MaxPairEvents)

LoopNext ==
    \/ LoopEnqueue
    \/ Tick
    \/ \E w \in Workers : LoopStep(w)

SpecLoop == Init /\ [][LoopNext]_vars

\* one worker process alone on the table, handler by handler
LoopSoloNext ==
    \/ LoopEnqueue
    \/ Tick
    \/ LoopStep(SoloWorker)

SpecLoopSolo == Init /\ [][LoopSoloNext]_vars

\* the loop of one worker on events that fan out to three agents and to two
FanOutEnqueue ==
    ProduceOf({"AppointmentCompleted", "AppointmentCreated"}, {50}, MaxPairEvents)

FanOutNext ==
    \/ FanOutEnqueue
    \/ Tick
    \/ LoopStep(SoloWorker)

SpecFanOut == Init /\ [][FanOutNext]_vars

\* ================================================= agents/appointment_agent.py
\* Instants are minutes since midnight of day 0; a date is a day number, a time
\* of day is minutes since midnight.  The appointments table has the columns
\* of _appt_select_cols without the optional appointment_datetime.
MinutesPerDay == 1440
WORKDAY_START == 540
WORKDAY_END == 1080
SLOT_STEP_MIN == 15
SUGGEST_DAYS_AHEAD == 7

\* ---- status strings, as sequences of characters
LowerCase == <<"a", "b", "c", "d", "e", "f", "g", "h", "i", "j", "k", "l", "m", "n", "o", "p", "q", "r", "s", "t", "u", "v", "w", "x", "y", "z">>

UpperCase == <<"A", "B", "C", "D", "E", "F", "G", "H", "I", "J", "K", "L", "M", "N", "O", "P", "Q", "R", "S", "T", "U", "V", "W", "X", "Y", "Z">>

\* str.upper(), one character
UpperChar(c) ==
    IF \E i \in 1..Len(LowerCase) : LowerCase[i] = c
    THEN UpperCase[CHOOSE i \in 1..Len(LowerCase) : LowerCase[i] = c]
    ELSE c

\* str.strip(): leading and trailing blanks removed
RECURSIVE LStrip(_)
LStrip(s) == IF s # <<>> /\ Head(s) = " " THEN LStrip(Tail(s)) ELSE s

RECURSIVE RStrip(_)
RStrip(s) ==
    IF s # <<>> /\ s[Len(s)] = " " THEN RStrip(SubSeq(s, 1, Len(s) - 1)) ELSE s

Strip(s) == RStrip(LStrip(s))

\* str.replace(old, new) for one-character old and new
Replace(s, old, new) == [i \in 1..Len(s) |-> IF s[i] = old THEN new ELSE s[i]]

\* str(s or "").strip().upper().replace("-", "_").replace(" ", "_")
_norm_status(s) ==
    Replace(Replace([i \in 1..Len(Strip(s)) |-> UpperChar(Strip(s)[i])], "-", "_"),
            " ", "_")

FinalStatuses == {<<"C", "A", "N", "C", "E", "L", "L", "E", "D">>,
                  <<"C", "A", "N", "C", "E", "L", "E", "D">>,
                  <<"C", "O", "M", "P", "L", "E", "T", "E", "D">>,
                  <<"N", "O", "_", "S", "H", "O", "W">>}

_is_final_status(status_norm) == status_norm \in FinalStatuses

\* ---- rows and windows
\* _combine_date_time(d, t): None when either part is NULL
_combine_date_time(d, t) ==
    IF d = NoTime \/ t = NoTime THEN NoTime ELSE d * MinutesPerDay + t

_fetch_appt_datetime(appt_row) ==
    _combine_date_time(appt_row.scheduled_date, appt_row.scheduled_time)

_fetch_appt_end_datetime(appt_row, start_dt, duration_min) ==
    IF start_dt = NoTime THEN NoTime
    ELSE LET end_dt == _combine_date_time(appt_row.scheduled_date,
                                          appt_row.scheduled_end_time)
         IN IF end_dt # NoTime THEN end_dt ELSE start_dt + duration_min

_overlaps_closed(a_start, a_end, b_start, b_end) == a_start <= b_end /\ b_start <= a_end

_overlaps(a_start, a_end, b_start, b_end) == a_start < b_end /\ b_start < a_end

\* dur = int(row.get("predicted_duration_min") or 0) or 30
RowDuration(row) ==
    IF row.predicted_duration_min # 0 THEN row.predicted_duration_min ELSE 30

\* the busy window (s, e) of a row; s = NoTime when the row has no start
BusyStart(row) == _fetch_appt_datetime(row)

BusyEnd(row) == _fetch_appt_end_datetime(row, BusyStart(row), RowDuration(row))

\* the loop body shared by both passes of _detect_conflicts: whether the row
\* is reported
CountsEvenIfFinal(row, start_dt, end_dt) ==
    /\ BusyStart(row) # NoTime
    /\ BusyEnd(row) # NoTime
    /\ _overlaps(start_dt, end_dt, BusyStart(row), BusyEnd(row))

RowConflicts(row, start_dt, end_dt) ==
    /\ ~_is_final_status(_norm_status(row.status))
    /\ BusyStart(row) # NoTime
    /\ BusyEnd(row) # NoTime
    /\ _overlaps(start_dt, end_dt, BusyStart(row), BusyEnd(row))

\* the ids 1..n in ascending order
IdSeq(n) == [i \in 1..n |-> i]

ConflictList(type, ids) ==
    [k \in 1..Len(ids) |-> [type |-> type, with_appointment_id |-> ids[k]]]

\* first pass: WHERE doctor_id=%s AND id<>%s; second pass, when operatory_id is
\* given: WHERE operatory_id=%s AND id<>%s
_detect_conflicts(appts, appt_id, doctor_id, start_dt, end_dt, operatory_id) ==
    LET DoctorRow(i) == /\ appts[i].doctor_id = doctor_id
                        /\ i # appt_id
                        /\ RowConflicts(appts[i], start_dt, end_dt)
        RoomRow(i) == /\ appts[i].operatory_id = operatory_id
                      /\ i # appt_id
                      /\ RowConflicts(appts[i], start_dt, end_dt)
    IN ConflictList("DOCTOR", SelectSeq(IdSeq(Len(appts)), DoctorRow))
       \o (IF operatory_id # 0
           THEN ConflictList("OPERATORY", SelectSeq(IdSeq(Len(appts)), RoomRow))
           ELSE <<>>)

\* ---- slot search
\* rows of the SELECT in _collect_busy_windows_for_day: scheduled_date=%s AND
\* (doctor_id=%s [OR operatory_id=%s]) [AND id<>%s], final statuses skipped;
\* the windows (s, e).  The list is sorted by start and only scanned for an
\* overlap, so a set stands for it
_collect_busy_windows_for_day(appts, day, doctor_id, operatory_id, exclude_appt_id) ==
    {<<BusyStart(appts[i]), BusyEnd(appts[i])>> :
        i \in {j \in DOMAIN appts :
                /\ appts[j].scheduled_date = day
                /\ \/ appts[j].doctor_id = doctor_id
                   \/ operatory_id # 0 /\ appts[j].operatory_id = operatory_id
                /\ exclude_appt_id = 0 \/ j # exclude_appt_id
                /\ ~_is_final_status(_norm_status(appts[j].status))
                /\ BusyStart(appts[j]) # NoTime
                /\ BusyEnd(appts[j]) # NoTime}}

LastN(q, n) == IF n <= 0 THEN <<>> ELSE SubSeq(q, IF Len(q) < n THEN 1 ELSE Len(q) - n + 1, Len(q))

FirstN(q, n) == IF n <= 0 THEN <<>> ELSE SubSeq(q, 1, IF Len(q) < n THEN Len(q) ELSE n)

\* is_free(candidate_start) of _suggest_slots, on day `day` with its busy list
is_free_ignoring_busy(candidate_start, day, busy, now_dt, duration_min, min_start_dt) ==
    /\ candidate_start + duration_min <= day * MinutesPerDay + WORKDAY_END
    /\ ~(day = now_dt \div MinutesPerDay /\ candidate_start < now_dt + 2)
    /\ ~(min_start_dt # NoTime /\ candidate_start < min_start_dt)

is_free_ignoring_floor(candidate_start, day, busy, now_dt, duration_min, min_start_dt) ==
    /\ candidate_start + duration_min <= day * MinutesPerDay + WORKDAY_END
    /\ ~(day = now_dt \div MinutesPerDay /\ candidate_start < now_dt + 2)
    /\ \A w \in busy : ~_overlaps(candidate_start, candidate_start + duration_min,
                                  w[1], w[2])

is_free(candidate_start, day, busy, now_dt, duration_min, min_start_dt) ==
    /\ candidate_start + duration_min <= day * MinutesPerDay + WORKDAY_END
    /\ ~(day = now_dt \div MinutesPerDay /\ candidate_start < now_dt + 2)
    /\ ~(min_start_dt # NoTime /\ candidate_start < min_start_dt)
    /\ \A w \in busy : ~_overlaps(candidate_start, candidate_start + duration_min,
                                  w[1], w[2])

\* the candidates the while loop visits on `day`, in order: from 09:00, or
\* from start_time if later on the first day, every SLOT_STEP_MIN while the
\* slot ends by 18:00
DayStarts(day, day_offset, duration_min, start_time) ==
    LET start_of_day == day * MinutesPerDay + WORKDAY_START
        end_of_day == day * MinutesPerDay + WORKDAY_END
        first == IF day_offset = 0 /\ start_time # NoTime
                    /\ day * MinutesPerDay + start_time > start_of_day
                 THEN day * MinutesPerDay + start_time ELSE start_of_day
        room == end_of_day - duration_min - first
    IN IF room < 0 THEN <<>>
       ELSE [k \in 1..(room \div SLOT_STEP_MIN + 1) |-> first + (k - 1) * SLOT_STEP_MIN]

\* what one pass of the for loop over day_offset appends to an empty `out`
DayOut(appts, now_dt, doctor_id, day, day_offset, duration_min, operatory_id, exclude_appt_id, limit, start_time, min_start_dt) ==
    IF min_start_dt # NoTime /\ day < min_start_dt \div MinutesPerDay THEN <<>>
    ELSE LET busy == _collect_busy_windows_for_day(appts, day, doctor_id,
                                                   operatory_id, exclude_appt_id)
             Free(c) == is_free(c, day, busy, now_dt, duration_min, min_start_dt)
             picked == FirstN(SelectSeq(DayStarts(day, day_offset, duration_min,
                                                  start_time), Free), limit)
         IN [k \in 1..Len(picked) |->
                [date |-> day,
                 startTime |-> picked[k] % MinutesPerDay,
                 endTime |-> (picked[k] + duration_min) % MinutesPerDay,
                 predictedDurationMin |-> duration_min]]

\* the search without the break after the first day that yields a candidate
_suggest_slots_every_day(appts, now_dt, doctor_id, target_date, duration_min, operatory_id, exclude_appt_id, limit, days_ahead, start_time, min_start_dt) ==
    LET base_day == IF target_date = NoTime THEN now_dt \div MinutesPerDay
                    ELSE target_date
        last == IF days_ahead < 0 THEN 0 ELSE days_ahead
        out[o \in 0..(last + 1)] ==
            IF o > last THEN <<>>
            ELSE DayOut(appts, now_dt, doctor_id, base_day + o, o, duration_min,
                        operatory_id, exclude_appt_id, limit, start_time, min_start_dt)
                 \o out[o + 1]
    IN FirstN(out[0], limit)

\* _suggest_slots: target_date first, then the following days up to
\* days_ahead, stopping at the first day that yields a candidate.
\* target_date = NoTime stands for a string strptime rejects (today is used)
_suggest_slots(appts, now_dt, doctor_id, target_date, duration_min, operatory_id, exclude_appt_id, limit, days_ahead, start_time, min_start_dt) ==
    LET base_day == IF target_date = NoTime THEN now_dt \div MinutesPerDay
                    ELSE target_date
        last == IF days_ahead < 0 THEN 0 ELSE days_ahead
        out[o \in 0..(last + 1)] ==
            IF o > last THEN <<>>
            ELSE LET today_out == DayOut(appts, now_dt, doctor_id, base_day + o, o,
                                         duration_min, operatory_id, exclude_appt_id,
                                         limit, start_time, min_start_dt)
                 IN IF today_out # <<>> THEN today_out ELSE out[o + 1]
    IN out[0]

\* ---- the appointments table and the handlers, one transaction a step
\* status values as the backend and the agent write them
Requested == <<"R", "e", "q", "u", "e", "s", "t", "e", "d">>
Confirmed == <<"C", "o", "n", "f", "i", "r", "m", "e", "d">>
TerminalSet == {<<"C", "a", "n", "c", "e", "l", "l", "e", "d">>,
                <<"c", "a", "n", "c", "e", "l", "e", "d">>,
                <<"C", "O", "M", "P", "L", "E", "T", "E", "D">>,
                <<"n", "o", "-", "s", "h", "o", "w">>,
                <<"N", "o", " ", "S", "h", "o", "w">>}

\* a row as the backend books it: status Requested, no predicted duration;
\* end_offset 0 stands for a NULL scheduled_end_time
NewAppointment(doctor_id, operatory_id, day, time, end_offset) ==
    [doctor_id |-> doctor_id, operatory_id |-> operatory_id, status |-> Requested,
     scheduled_date |-> day, scheduled_time |-> time,
     scheduled_end_time |-> IF end_offset = 0 THEN NoTime ELSE time + end_offset,
     predicted_duration_min |-> 0, linked_case_id |-> 0]

Book(doctors, rooms, days, times, end_offsets, cap) ==
    \E d \in doctors, r \in rooms, day \in days, t \in times, eo \in end_offsets :
        /\ Len(appointments) < cap
        /\ appointments' = Append(appointments, NewAppointment(d, r, day, t, eo))
        /\ UNCHANGED <<queueVars, sideVars, wallclock, conflicts, suggested, booking>>

\* the appointment is cancelled, completed or missed: its status becomes final
SetStatus(a, st) ==
    /\ appointments[a].status \notin TerminalSet
    /\ appointments' = [appointments EXCEPT ![a].status = st]
    /\ UNCHANGED <<queueVars, sideVars, wallclock, conflicts, suggested, booking>>

\* _update_predicted_fields: predicted_duration_min and scheduled_end_time
\* (start + duration, as a time of day) of the row, when it has a start
_update_predicted_fields(appts, appt_id, duration_min, start_dt) ==
    IF start_dt = NoTime THEN appts
    ELSE [appts EXCEPT ![appt_id].predicted_duration_min = duration_min,
                       ![appt_id].scheduled_end_time =
                            (start_dt + duration_min) % MinutesPerDay]

\* the status UPDATE left out
_set_status_never(appts, appt_id, desired) == appts

\* _set_status_if_possible(conn, appt_id, desired)
_set_status_if_possible(appts, appt_id, desired) ==
    [appts EXCEPT ![appt_id].status = desired]

\* ---- cases and healing windows
\* CASE_STAGE_HEALING: days that must pass, by stage
CASE_STAGE_HEALING ==
    (<<"N", "E", "W">> :> 0) @@
    (<<"I", "N", "_", "T", "R", "E", "A", "T", "M", "E", "N", "T">> :> 3) @@
    (<<"W", "A", "I", "T", "I", "N", "G", "_", "O", "N", "_", "P", "A", "T", "I", "E", "N", "T">> :> 7) @@
    (<<"C", "L", "O", "S", "E", "D">> :> 0) @@
    (<<"C", "O", "M", "P", "L", "E", "T", "E", "D">> :> 0)

\* the cases table: case 1 in treatment, case 2 waiting on the patient
NoStage == <<>>

cases == <<[stage |-> <<"i", "n", "_", "t", "r", "e", "a", "t", "m", "e", "n", "t">>],
           [stage |-> <<"W", "A", "I", "T", "I", "N", "G", "_", "O", "N", "_", "P", "A", "T", "I", "E", "N", "T">>]>>

\* _case_stage_healing(stage): 0 for no stage and for a stage not in the table
_case_stage_healing(stage) ==
    LET key == [i \in 1..Len(stage) |-> UpperChar(stage[i])]
    IN IF stage = NoStage THEN 0
       ELSE IF key \in DOMAIN CASE_STAGE_HEALING THEN CASE_STAGE_HEALING[key] ELSE 0

\* _get_case_stage(conn, case_id): None without a case id or without its row
_get_case_stage(case_id) ==
    IF case_id = 0 THEN NoStage
    ELSE IF case_id \in DOMAIN cases THEN cases[case_id].stage ELSE NoStage

\* delay of _calculate_case_min_start for a case id; NoTime without a case
CaseDelay(case_id) ==
    IF case_id = 0 THEN NoTime ELSE _case_stage_healing(_get_case_stage(case_id))

\* _calculate_case_min_start: None without a case, else the later of
\* reference + healing days and now; case_delay = NoTime stands for no case
_calculate_case_min_start(case_delay, reference_dt, now_dt) ==
    IF case_delay = NoTime THEN NoTime
    ELSE LET ref == IF reference_dt # NoTime THEN reference_dt ELSE now_dt
             candidate == ref + case_delay * MinutesPerDay
         IN IF candidate >= now_dt THEN candidate ELSE now_dt

\* min_start_dt of on_appointment_created: the floor of the row's case, with
\* the row's own start as reference
CreatedFloor(appts, a, now_dt) ==
    _calculate_case_min_start(CaseDelay(appts[a].linked_case_id),
                              _fetch_appt_datetime(appts[a]), now_dt)

\* start_dt of on_appointment_created after the healing-window clamp
CreatedStart(appts, a, now_dt) ==
    LET start_dt == _fetch_appt_datetime(appts[a])
        min_start_dt == CreatedFloor(appts, a, now_dt)
    IN IF min_start_dt # NoTime /\ start_dt # NoTime /\ start_dt < min_start_dt
       THEN min_start_dt ELSE start_dt

\* conflicts of on_appointment_created for appointment a and predicted
\* duration dur_min, on the table after _update_predicted_fields
CreatedConflicts(appts, a, dur_min, now_dt) ==
    LET start_dt == CreatedStart(appts, a, now_dt)
    IN IF start_dt # NoTime /\ appts[a].doctor_id # 0
       THEN _detect_conflicts(_update_predicted_fields(appts, a, dur_min, start_dt),
                              a, appts[a].doctor_id, start_dt, start_dt + dur_min,
                              appts[a].operatory_id)
       ELSE <<>>

\* the _suggest_slots call of on_appointment_created when conflicts were
\* found: from the day and the time of the (clamped) start
CreatedSuggestions(appts, a, dur_min, now_dt) ==
    LET start_dt == CreatedStart(appts, a, now_dt)
    IN _suggest_slots(appts, now_dt, appts[a].doctor_id, start_dt \div MinutesPerDay,
                      dur_min, appts[a].operatory_id, a, 10, SUGGEST_DAYS_AHEAD,
                      start_dt % MinutesPerDay, CreatedFloor(appts, a, now_dt))

\* the appointments table on_appointment_created commits: the predicted
\* fields, and the status Confirmed when no conflict was found
CreatedCommitted(appts, a, dur_min, now_dt) ==
    LET updated == _update_predicted_fields(appts, a, dur_min,
                                            CreatedStart(appts, a, now_dt))
    IN IF CreatedConflicts(appts, a, dur_min, now_dt) = <<>>
       THEN _set_status_if_possible(updated, a, Confirmed)
       ELSE updated

\* on_appointment_created, the calendar part: predict the duration, clamp the
\* start to the healing window, detect conflicts, confirm when there is none,
\* commit, and search alternatives (CreatedSuggestions, sent to the doctor
\* and the admins) when there are conflicts
OnAppointmentCreated(a, dur_min) ==
    LET start_dt == CreatedStart(appointments, a, wallclock)
        found == CreatedConflicts(appointments, a, dur_min, wallclock)
    IN /\ appointments' = CreatedCommitted(appointments, a, dur_min, wallclock)
       /\ conflicts' = [appt |-> a, start_dt |-> start_dt,
                        end_dt |-> IF start_dt = NoTime THEN NoTime
                                   ELSE start_dt + dur_min,
                        found |-> found,
                        min_start_dt |-> CreatedFloor(appointments, a, wallclock),
                        searched |-> found # <<>>]
       /\ UNCHANGED <<queueVars, sideVars, wallclock, suggested, booking>>

\* the conflicts specification: two doctors, one room, one day, windows that
\* overlap, touch or lie apart
ConflictFinals == {<<"n", "o", "-", "s", "h", "o", "w">>}

ConflictBook == Book({1, 2}, {0}, {1}, {600, 615, 630}, {0}, MaxAppts)

ConflictsNext ==
    \/ ConflictBook
    \/ \E a \in DOMAIN appointments, st \in ConflictFinals : SetStatus(a, st)
    \/ \E a \in DOMAIN appointments : OnAppointmentCreated(a, 30)

SpecConflicts == Init /\ [][ConflictsNext]_vars

\* ---- auto-scheduling
\* dur_min of on_appointment_auto_schedule_requested
ScheduleDuration(appt, predicted) ==
    IF appt.predicted_duration_min # 0 THEN appt.predicted_duration_min ELSE predicted

\* min_start_dt of on_appointment_auto_schedule_requested: the case of the
\* row, else the case of the payload (case_delay; NoTime for none), with the
\* row's own start as reference
ScheduleFloor(appts, now_dt, a, case_delay) ==
    _calculate_case_min_start(IF appts[a].linked_case_id # 0
                              THEN CaseDelay(appts[a].linked_case_id)
                              ELSE case_delay,
                              _fetch_appt_datetime(appts[a]), now_dt)

\* the _suggest_slots call of on_appointment_auto_schedule_requested for
\* appointment a: from the row's own date, the row itself excluded
ScheduleSuggestions(appts, now_dt, a, days_ahead, limit, case_delay, predicted) ==
    _suggest_slots(appts, now_dt, appts[a].doctor_id, appts[a].scheduled_date,
                   ScheduleDuration(appts[a], predicted), appts[a].operatory_id, a,
                   limit, days_ahead, NoTime,
                   ScheduleFloor(appts, now_dt, a, case_delay))

\* the UPDATE without its scheduled_end_time column
ScheduleWrite_without_end(appts, a, chosen, dur_min) ==
    _set_status_if_possible(
        [appts EXCEPT ![a].scheduled_date = chosen.date,
                      ![a].scheduled_time = chosen.startTime,
                      ![a].predicted_duration_min = dur_min],
        a, Confirmed)

\* the UPDATE to the chosen slot and the status change
ScheduleWrite(appts, a, chosen, dur_min) ==
    _set_status_if_possible(
        [appts EXCEPT ![a].scheduled_date = chosen.date,
                      ![a].scheduled_time = chosen.startTime,
                      ![a].scheduled_end_time = chosen.endTime,
                      ![a].predicted_duration_min = dur_min],
        a, Confirmed)

\* daysAhead of the payload: 1, or absent (the default)
PayloadDaysAhead == {1, SUGGEST_DAYS_AHEAD}
\* limit of the payload: absent (10)
PayloadLimit == {10}
\* linked case of the payload: none, or one with 0 healing days
PayloadCase == {NoTime, 0}

\* on_appointment_auto_schedule_requested run by one worker alone, up to its
\* commit, for an appointment that still waits for a slot; `suggested` keeps
\* the call until the handler returns
OnAutoScheduleRequested(a, days_ahead, limit, case_delay) ==
    LET dur_min == ScheduleDuration(appointments[a], 30)
        suggestions == ScheduleSuggestions(appointments, wallclock, a, days_ahead,
                                           limit, case_delay, 30)
    IN /\ suggested = NoSuggest
       /\ appointments[a].status = Requested
       /\ appointments' = IF suggestions = <<>> THEN appointments
                          ELSE ScheduleWrite(appointments, a, suggestions[1], dur_min)
       /\ suggested' = [called |-> TRUE, appt |-> a, now_dt |-> wallclock,
                        target_date |-> appointments[a].scheduled_date,
                        min_start_dt |-> ScheduleFloor(appointments, wallclock, a,
                                                       case_delay),
                        out |-> suggestions]
       /\ UNCHANGED <<queueVars, sideVars, wallclock, conflicts, booking>>

\* the handler returns
HandlerReturns ==
    /\ suggested # NoSuggest
    /\ suggested' = NoSuggest
    /\ UNCHANGED <<queueVars, sideVars, appointments, wallclock, conflicts, booking>>

\* time passes
ClockAdvance ==
    /\ \E t \in Instants : t > wallclock /\ wallclock' = t
    /\ UNCHANGED <<queueVars, sideVars, appointments, conflicts, suggested, booking>>

\* the slots specification: doctors 1 and 2 share room 7; appointments of
\* yesterday and of today at 09:00
SlotBook == Book({1, 2}, {7}, {0, 1}, {540}, {0}, MaxAppts)

SlotsNext ==
    \/ suggested = NoSuggest /\ SlotBook
    \/ suggested = NoSuggest
         /\ \E a \in DOMAIN appointments, st \in ConflictFinals : SetStatus(a, st)
    \/ suggested = NoSuggest /\ ClockAdvance
    \/ \E a \in DOMAIN appointments, d \in PayloadDaysAhead, l \in PayloadLimit,
          c \in PayloadCase : OnAutoScheduleRequested(a, d, l, c)
    \/ HandlerReturns

SpecSlots == Init /\ [][SlotsNext]_vars

\* ---- two workers running appointment handlers at the same time.  Neither
\* handler locks what it reads (plain SELECTs), so the reads of one handler and
\* its UPDATE and commit are separate steps, and the other worker may commit
\* in between
\* on_appointment_auto_schedule_requested up to the _suggest_slots call
AutoScheduleRead(w, a) ==
    /\ booking[w] = NoBooking
    /\ appointments[a].status = Requested
    /\ booking' = [booking EXCEPT ![w] =
                     [st |-> "chosen", appt |-> a,
                      dur |-> ScheduleDuration(appointments[a], 30),
                      out |-> ScheduleSuggestions(appointments, wallclock, a,
                                                  SUGGEST_DAYS_AHEAD, 10, NoTime, 30)]]
    /\ UNCHANGED <<queueVars, sideVars, appointments, wallclock, conflicts, suggested>>

\* the UPDATE to suggestions[0], the status change and the commit
AutoScheduleCommit(w) ==
    /\ booking[w].st = "chosen"
    /\ appointments' = IF booking[w].out = <<>> THEN appointments
                       ELSE ScheduleWrite(appointments, booking[w].appt,
                                          booking[w].out[1], booking[w].dur)
    /\ booking' = [booking EXCEPT ![w] = NoBooking]
    /\ UNCHANGED <<queueVars, sideVars, wallclock, conflicts, suggested>>

\* on_appointment_created up to the _detect_conflicts call
CreatedRead(w, a) ==
    /\ booking[w] = NoBooking
    /\ appointments[a].status = Requested
    /\ booking' = [booking EXCEPT ![w] =
                     [st |-> "detected", appt |-> a, dur |-> 30,
                      out |-> CreatedConflicts(appointments, a, 30, wallclock)]]
    /\ UNCHANGED <<queueVars, sideVars, appointments, wallclock, conflicts, suggested>>

\* the predicted fields, the status change when no conflict was found, and
\* the commit
CreatedCommit(w) ==
    LET a == booking[w].appt
        updated == _update_predicted_fields(appointments, a, booking[w].dur,
                                            CreatedStart(appointments, a, wallclock))
    IN /\ booking[w].st = "detected"
       /\ appointments' = IF booking[w].out = <<>>
                          THEN _set_status_if_possible(updated, a, Confirmed)
                          ELSE updated
       /\ booking' = [booking EXCEPT ![w] = NoBooking]
       /\ UNCHANGED <<queueVars, sideVars, wallclock, conflicts, suggested>>

\* appointments of one doctor, today at 09:00 and at 10:00
ScheduleBook == Book({1}, {0}, {1}, {540, 600}, {0}, MaxAppts)

ScheduleStep(w) ==
    \/ \E a \in DOMAIN appointments : AutoScheduleRead(w, a)
    \/ AutoScheduleCommit(w)
    \/ \E a \in DOMAIN appointments : CreatedRead(w, a)
    \/ CreatedCommit(w)

ScheduleNext ==
    \/ ScheduleBook
    \/ \E w \in Workers : ScheduleStep(w)

SpecSchedule == Init /\ [][ScheduleNext]_vars

\* the same with one worker: handlers run one after the other
ScheduleSoloNext ==
    \/ ScheduleBook
    \/ ScheduleStep(SoloWorker)

SpecScheduleSolo == Init /\ [][ScheduleSoloNext]_vars

\* ---- appointments linked to cases
\* the handler returns
CreatedReturns ==
    /\ conflicts # NoDetect
    /\ conflicts' = NoDetect
    /\ UNCHANGED <<queueVars, sideVars, appointments, wallclock, suggested, booking>>

\* rows of the case specification, all today: 10:00 unlinked; 10:00 linked to
\* case 1 (in treatment); 09:00, before now, linked to case 3 (no cases row);
\* 10:00 three days later, linked to case 1 too; 10:00 without a doctor; a row
\* without a date and a time
CaseRows ==
    {NewAppointment(1, 0, 1, 600, 0),
     [NewAppointment(1, 0, 1, 600, 0) EXCEPT !.linked_case_id = 1],
     [NewAppointment(1, 0, 1, 540, 0) EXCEPT !.linked_case_id = 3],
     [NewAppointment(1, 0, 4, 600, 0) EXCEPT !.linked_case_id = 1],
     NewAppointment(0, 0, 1, 600, 0),
     NewAppointment(1, 0, NoTime, NoTime, 0)}

CaseBook ==
    \E row \in CaseRows :
        /\ Len(appointments) < MaxAppts
        /\ appointments' = Append(appointments, row)
        /\ UNCHANGED <<queueVars, sideVars, wallclock, conflicts, suggested, booking>>

Idle == conflicts = NoDetect /\ suggested = NoSuggest

CaseNext ==
    \/ Idle /\ CaseBook
    \/ Idle /\ \E a \in DOMAIN appointments : OnAppointmentCreated(a, 30)
    \/ CreatedReturns
    \/ conflicts = NoDetect
         /\ \E a \in DOMAIN appointments, d \in PayloadDaysAhead, l \in PayloadLimit,
               c \in PayloadCase : OnAutoScheduleRequested(a, d, l, c)
    \/ HandlerReturns

SpecCase == Init /\ [][CaseNext]_vars

\* ---- end to end: the backend books an appointment and enqueues its
\* AppointmentCreated event; one worker claims it, runs the agents and marks it
\* the backend's INSERT INTO appointments and its enqueue_event with the
\* payload {appointmentId}, at the default priority, without a retry budget
BookAndEnqueue(doctors, days, times) ==
    \E d \in doctors, day \in days, t \in times :
        /\ Len(appointments) < MaxAppts
        /\ Len(events) < MaxEvents
        /\ appointments' = Append(appointments, NewAppointment(d, 0, day, t, 0))
        /\ events' = Append(events,
                            [payload |-> Len(appointments) + 1]
                                @@ NewRow("AppointmentCreated", 50, 0, now))
        /\ UNCHANGED <<sideVars, now, locks, pc, ev, dead, acq, log, last_monitor, returned,
                       wallclock, conflicts, suggested, booking>>

\* a notification is sent by the handler: it got past `if start_dt`
CreatedNotifies(appts, a, now_dt) == CreatedStart(appts, a, now_dt) # NoTime

\* AppointmentAgent.handle for an AppointmentCreated event: the handler
\* commits the appointment, every create_notification call returns, and the
\* handler returns
AppointmentAgentReturns(w) ==
    /\ pc[w] = "handling"
    /\ events[ev[w]].event_type = "AppointmentCreated"
    /\ returned[w] = <<>>
    /\ appointments' = CreatedCommitted(appointments, events[ev[w]].payload, 30,
                                        wallclock)
    /\ returned' = [returned EXCEPT ![w] = <<"AppointmentAgent">>]
    /\ UNCHANGED <<sideVars, now, events, locks, pc, ev, dead, acq, log, last_monitor,
                   wallclock, conflicts, suggested, booking>>

\* the same, but a create_notification call raises (get_conn fails, or the
\* INSERT fails and is re-raised): this is after the handler's commit, nothing
\* in the handler or in AppointmentAgent.handle catches it, and it reaches the
\* except clause of the loop: safe_rollback, mark_failed
AppointmentSinkRaises(w) ==
    /\ pc[w] = "handling"
    /\ events[ev[w]].event_type = "AppointmentCreated"
    /\ returned[w] = <<>>
    /\ CreatedNotifies(appointments, events[ev[w]].payload, wallclock)
    /\ appointments' = CreatedCommitted(appointments, events[ev[w]].payload, 30,
                                        wallclock)
    /\ dead' = [dead EXCEPT ![w] = ShouldDead(events[ev[w]])]
    /\ pc' = [pc EXCEPT ![w] = "failing"]
    /\ UNCHANGED <<sideVars, now, events, locks, ev, acq, log, last_monitor, returned,
                   wallclock, conflicts, suggested, booking>>

\* RevenueAgent.handle for the same event returns: it writes an invoice and a
\* notification, nothing in the appointments table or in agent_events
RevenueAgentReturns(w) == returned[w] = <<"AppointmentAgent">> /\ AgentReturns(w)

\* create_notification raises inside RevenueAgent's _notify_patient
RevenueSinkRaises(w) == returned[w] = <<"AppointmentAgent">> /\ HandleFail(w)

\* appointments of doctor 1, today or tomorrow at 10:00
EndToEndBook == BookAndEnqueue({1}, {1, 2}, {600})

\* the loop with a notification sink that works
EndToEndStep(w) ==
    \/ ClaimSelect(w)
    \/ ClaimUpdate(w)
    \/ AppointmentAgentReturns(w)
    \/ RevenueAgentReturns(w)
    \/ LoopMarkDone(w)

EndToEndNext ==
    \/ EndToEndBook
    \/ Tick
    \/ EndToEndStep(SoloWorker)

SpecEndToEnd == Init /\ [][EndToEndNext]_vars

\* the loop with a notification sink that may fail
SinkNext ==
    \/ EndToEndBook
    \/ Tick
    \/ EndToEndStep(SoloWorker)
    \/ AppointmentSinkRaises(SoloWorker)
    \/ RevenueSinkRaises(SoloWorker)
    \/ MarkFailedUpdate(SoloWorker)

SpecSink == Init /\ [][SinkNext]_vars

\* ---- the slot search called on its own, as the handlers call it
\* one _suggest_slots call on the table as it is: its arguments and its result
SuggestCall(doctor_id, target_date, duration_min, exclude_appt_id, limit, days_ahead, start_time, min_start_dt) ==
    /\ suggested = NoSuggest
    /\ suggested' = [called |-> TRUE, appt |-> exclude_appt_id, now_dt |-> wallclock,
                     doctor_id |-> doctor_id, target_date |-> target_date,
                     duration_min |-> duration_min, limit |-> limit,
                     days_ahead |-> days_ahead, start_time |-> start_time,
                     min_start_dt |-> min_start_dt,
                     out |-> _suggest_slots(appointments, wallclock, doctor_id,
                                            target_date, duration_min, 0,
                                            exclude_appt_id, limit, days_ahead,
                                            start_time, min_start_dt)]
    /\ UNCHANGED <<queueVars, sideVars, appointments, wallclock, conflicts, booking>>

\* arguments of the search: today or tomorrow; limits below and above the
\* number of free starts of a day; a horizon of the target day alone or one
\* more day; no earliest start or 10:25; no floor, today 10:00 or tomorrow 09:20
SearchDates == {1, 2}
SearchLimits == {1, 2, 40}
SearchDaysAhead == {0, 1}
SearchStartTimes == {NoTime, 625}
SearchFloors == {NoTime, 1 * MinutesPerDay + 600, 2 * MinutesPerDay + 560}

\* bookings of doctor 1, today or tomorrow: 09:00 or 10:00, for 45 minutes or
\* for nine hours (09:00 for nine hours books the whole day)
SearchBook == Book({1}, {0}, {1, 2}, {540, 600}, {45, 540}, MaxAppts)

SearchNext ==
    \/ suggested = NoSuggest /\ SearchBook
    \/ suggested = NoSuggest /\ ClockAdvance
    \/ \E t \in SearchDates, l \in SearchLimits, d \in SearchDaysAhead,
          st \in SearchStartTimes, f \in SearchFloors :
            SuggestCall(1, t, 30, 0, l, d, st, f)
    \/ HandlerReturns

SpecSearch == Init /\ [][SearchNext]_vars

\* ---- the monitor sweep, one transaction a step
GRACE_MIN_DELAY == 10
GRACE_MIN_NO_SHOW == 45

NoShow == <<"N", "o", "-", "s", "h", "o", "w">>
Completed == <<"C", "O", "M", "P", "L", "E", "T", "E", "D">>

\* what the loop body does with a row of the snapshot, at the sweep's now
SweepBranch(appt, now_dt) ==
    LET start_dt == _fetch_appt_datetime(appt)
    IN IF _is_final_status(_norm_status(appt.status)) THEN "skip"
       ELSE IF start_dt = NoTime THEN "skip"
       ELSE IF now_dt > start_dt + GRACE_MIN_NO_SHOW THEN "noshow"
       ELSE IF now_dt > start_dt + GRACE_MIN_DELAY THEN "delay"
       ELSE "skip"

\* SELECT * FROM appointments WHERE scheduled_date = today, and for each row
\* the branch the loop takes; the rows it passes over are left out
SweepRows(appts, now_dt) ==
    LET today == now_dt \div MinutesPerDay
        Acts(a) == /\ appts[a].scheduled_date = today
                   /\ SweepBranch(appts[a], now_dt) # "skip"
        ids == SelectSeq(IdSeq(Len(appts)), Acts)
    IN [i \in 1..Len(ids) |->
            [id |-> ids[i], branch |-> SweepBranch(appts[ids[i]], now_dt)]]

\* whom the branch notifies, in the order of the calls; every appointment has
\* a patient and a doctor
SweepRecipients(branch) ==
    IF branch = "noshow" THEN <<"patient", "doctor", "admin">>
    ELSE <<"doctor", "admin">>

\* dedupe_key = f"appt:{appt_id}:{recipient}:noshow" or "...:delay"
SweepKey(appt_id, recipient, branch) == <<appt_id, recipient, branch>>

\* _insert_idempotency_lock finds no idempotency_locks table: no guard
_insert_idempotency_lock_no_table(keys, key) == TRUE

\* _insert_idempotency_lock(cur, key) of notifications.py: a bare INSERT, False
\* when it raises; lock_key is unique, so it raises on a key that has a row
_insert_idempotency_lock(keys, key) == key \notin keys

\* the sweep selects today's rows and takes now
SweepRead(w) ==
    /\ sweep[w] = NoSweep
    /\ Len(notifications) < MaxNotes
    /\ sweep' = [sweep EXCEPT ![w] = [st |-> "rows", now_dt |-> wallclock,
                                      rows |-> SweepRows(appointments, wallclock),
                                      step |-> 0]]
    /\ UNCHANGED <<queueVars, appointments, wallclock, conflicts, suggested, booking,
                   notifications, notify_locks, tx>>

\* the no-show branch: _set_status_if_possible, _write_audit, commit
SweepNoShow(w) ==
    /\ sweep[w].st = "rows" /\ sweep[w].rows # <<>>
    /\ Head(sweep[w].rows).branch = "noshow" /\ sweep[w].step = 0
    /\ appointments' = _set_status_if_possible(appointments, Head(sweep[w].rows).id,
                                               NoShow)
    /\ sweep' = [sweep EXCEPT ![w].step = 1]
    /\ UNCHANGED <<queueVars, wallclock, conflicts, suggested, booking,
                   notifications, notify_locks, tx>>

\* the recipient of the next create_notification call of the row, 0 if the
\* next step of the row is not a notification
SweepNextRecipient(sw) ==
    LET row == Head(sw.rows)
        n == IF row.branch = "noshow" THEN sw.step ELSE sw.step + 1
    IN IF n >= 1 /\ n <= Len(SweepRecipients(row.branch)) THEN n ELSE 0

\* the sweep's locals after a create_notification call returned
SweepAdvance(sw) ==
    IF SweepNextRecipient(sw) = Len(SweepRecipients(Head(sw.rows).branch))
    THEN [sw EXCEPT !.rows = Tail(sw.rows), !.step = 0]
    ELSE [sw EXCEPT !.step = sw.step + 1]

\* create_notification(..., dedupe_key=key, conn=None): the lock and the row
\* are inserted and committed together on its own connection, or the key is
\* there and it returns
SweepNotify(w) ==
    /\ sweep[w].st = "rows" /\ sweep[w].rows # <<>>
    /\ SweepNextRecipient(sweep[w]) # 0
    /\ LET row == Head(sweep[w].rows)
           to == SweepRecipients(row.branch)[SweepNextRecipient(sweep[w])]
           key == SweepKey(row.id, to, row.branch)
       IN IF _insert_idempotency_lock(notify_locks, key)
          THEN /\ notify_locks' = notify_locks \cup {key}
               /\ notifications' = Append(notifications,
                                          [to |-> to, appt |-> row.id,
                                           notif_type |-> row.branch])
          ELSE UNCHANGED <<notifications, notify_locks>>
    /\ sweep' = [sweep EXCEPT ![w] = SweepAdvance(sweep[w])]
    /\ UNCHANGED <<queueVars, appointments, wallclock, conflicts, suggested, booking, tx>>

\* create_notification raises (get_conn fails, or the INSERT fails and is
\* re-raised): its transaction is lost and the sweep ends where it is
SweepNotifyRaises(w) ==
    /\ sweep[w].st = "rows" /\ sweep[w].rows # <<>>
    /\ SweepNextRecipient(sweep[w]) # 0
    /\ sweep' = [sweep EXCEPT ![w] = NoSweep]
    /\ UNCHANGED <<queueVars, appointments, wallclock, conflicts, suggested, booking,
                   notifications, notify_locks, tx>>

\* the loop is through the snapshot: the sweep returns
SweepEnds(w) ==
    /\ sweep[w].st = "rows" /\ sweep[w].rows = <<>>
    /\ sweep' = [sweep EXCEPT ![w] = NoSweep]
    /\ UNCHANGED <<queueVars, appointments, wallclock, conflicts, suggested, booking,
                   notifications, notify_locks, tx>>

SweepStep(w) ==
    \/ SweepRead(w)
    \/ SweepNoShow(w)
    \/ SweepNotify(w)
    \/ SweepNotifyRaises(w)
    \/ SweepEnds(w)

\* the sweep specification: at 09:10 of day 1 an appointment of 08:00 is
\* past the no-show grace, one of 08:25 is exactly at it, one of 09:00 is
\* exactly at the delay grace; the backend completes appointments meanwhile
SweepBook == Book({1}, {0}, {0, 1}, {480, 505, 540}, {0}, MaxAppts)

SweepNext ==
    \/ (\A w \in Workers : sweep[w] = NoSweep) /\ SweepBook
    \/ \E a \in DOMAIN appointments : SetStatus(a, Completed)
    \/ (\A w \in Workers : sweep[w] = NoSweep) /\ ClockAdvance
    \/ \E w \in Workers : SweepStep(w)

SpecSweep == Init /\ [][SweepNext]_vars

\* the delay specification: appointments of today at 08:25 and 09:00, both
\* workers sweeping; at 17:20 both appointments are past the no-show grace
DelayBook == Book({1}, {0}, {1}, {505, 540}, {0}, MaxAppts)

DelayNext ==
    \/ (\A w \in Workers : sweep[w] = NoSweep) /\ DelayBook
    \/ (\A w \in Workers : sweep[w] = NoSweep) /\ ClockAdvance
    \/ \E w \in Workers : SweepStep(w)

SpecDelay == Init /\ [][DelayNext]_vars

\* ======================================================================= claims
Ids == DOMAIN events

\* worker w has been handed event e by claim and has not recorded its outcome
Holds(w, e) == pc[w] \in {"handling", "failing"} /\ ev[w] = e

LeaseExpired(e) ==
    events[e].locked_until # NoTime /\ events[e].locked_until <= now

DeadLettered(e) == events[e].status \in {"DEAD", "FAILED"}

\* the claim of worker w returns in this step
ClaimReturns(w) == pc[w] = "selected" /\ pc'[w] = "handling"

\* C1: no event is ever held by two workers at once: two interleaved claim
\* calls never both return the same event while its lease is active.
C1_NoDoubleClaim ==
    \A w1, w2 \in Workers : \A e \in Ids :
        (w1 # w2 /\ Holds(w1, e) /\ Holds(w2, e)) => events[e].locked_until <= now

\* a row is unclaimed and due
Claimable(o) ==
    /\ events[o].status = "NEW"
    /\ events[o].available_at <= now
    /\ (events[o].locked_until = NoTime \/ events[o].locked_until <= now)

\* o does not come before e in (priority desc, id asc)
NotBefore(o, e) ==
    \/ events[o].priority < events[e].priority
    \/ events[o].priority = events[e].priority /\ e <= o

\* C2: a PROCESSING event whose lease expiry has passed, and which is the
\* best-ordered of the rows a claim may take (the unclaimed rows that are due
\* and the rows whose lease has expired), is the row a claim made now returns.
C2_ExpiredLeaseReclaimed ==
    \A e \in Ids :
        ( /\ events[e].status = "PROCESSING"
          /\ LeaseExpired(e)
          /\ \A o \in Ids :
                (Claimable(o) \/ (events[o].status = "PROCESSING" /\ LeaseExpired(o)))
                    => NotBefore(o, e) )
        => SelectCandidate(events, now) = e

\* C3: the event of a worker that crashed or hangs after claiming it is
\* eventually claimed again once its lease has run out; it does not stay
\* PROCESSING under that worker forever.
StuckWith(w) ==
    /\ pc[w] = "crashed"
    /\ events[ev[w]].status = "PROCESSING"
    /\ events[ev[w]].locked_by = w
    /\ LeaseExpired(ev[w])

C3_CrashedLeaseReclaimed == \A w \in Workers : StuckWith(w) ~> ~StuckWith(w)

\* C4: with no worker crashed, every failure either ends the event (DEAD or
\* FAILED once its attempts have reached max_attempts) or leaves it a retry
\* budget that the next attempt uses up, so that every event reaches a
\* terminal status: no event waits for a retry with attempts >= max_attempts.
C4_FailureEndsOrKeepsBudget ==
    (\A w \in Workers : pc[w] # "crashed")
        => \A e \in Ids :
              (events[e].status = "NEW" /\ events[e].last_error # NoError)
                  => events[e].attempts < events[e].max_attempts

\* C5: the row a claim selects is eligible at the time of the SELECT, no
\* eligible row has a higher priority, and no eligible row of the same
\* priority has a smaller id.
C5_ClaimOrder ==
    [][\A w \in Workers :
          (pc[w] = "idle" /\ pc'[w] = "selected") =>
              LET e == ev'[w] IN
              /\ e \in Ids
              /\ Claimable(e)
              /\ \A o \in Ids : Claimable(o) => NotBefore(o, e)]_vars

\* the claim passed over an older row that is due, for a newer one of higher
\* priority
C5_Witness ==
    \E w \in Workers :
        /\ pc[w] = "selected"
        /\ ev[w] = 2
        /\ Claimable(1)
        /\ events[1].priority < events[2].priority

\* C6: once mark_failed has dead-lettered an event (DEAD or FAILED), no claim
\* returns it.
C6_DeadNeverClaimed ==
    [][\A w \in Workers : ClaimReturns(w) => ~DeadLettered(ev[w])]_vars

\* C7: every event with a retry budget satisfies attempts <= max_attempts.
C7_AttemptsBounded ==
    \A e \in Ids :
        events[e].max_attempts >= 1 => events[e].attempts <= events[e].max_attempts

Acquired == {r \in log : r.key # NoKey /\ r.ret # 0}

\* the lock h took is held and unexpired when call r runs its INSERT
HeldDuring(h, r) ==
    h.n < r.n /\ h.key = r.key /\ h.at <= r.at /\ r.at < h.until

\* C8: enqueue with a dedupe_key that is held and not expired returns 0 and
\* inserts no event row (the rows are exactly the non-zero returns), so the
\* enqueues made with one key while it is valid create at most one row.
C8_DedupedEnqueueIsNoOp ==
    /\ \A r \in log : \A h \in Acquired :
          (r.op = "enqueue" /\ HeldDuring(h, r)) => r.ret = 0
    /\ {r.ret : r \in {x \in log : x.op = "enqueue"}} \ {0} = Ids
    /\ Cardinality({r \in log : r.op = "enqueue" /\ r.ret # 0}) = Len(events)

\* a second enqueue with the key of an earlier one, still valid, returned 0
C8_Witness ==
    /\ Len(events) = 1
    /\ \E h, r \in log :
          /\ h.op = "enqueue" /\ r.op = "enqueue"
          /\ h.ret = 1 /\ r.ret = 0
          /\ HeldDuring(h, r)
          /\ h.at < r.at

\* C10: of the try_acquire calls racing for a key, at most one returns true
\* while a lock is held and unexpired (the lives of the locks taken on one key
\* never overlap), and a call returns false only because of a lock that was
\* unexpired when it purged or that was taken since.
C10_ExactlyOneAcquires ==
    /\ \A h, r \in Acquired : ~HeldDuring(h, r)
    /\ \A f \in log :
          (f.op = "try_acquire" /\ f.ret = 0) =>
              \E h \in Acquired :
                  /\ h.n < f.n /\ h.key = f.key
                  /\ h.until > f.purged_at

\* two calls for one key ran interleaved (both purged before either inserted
\* its row): one returned true, the other false
C10_Witness ==
    \E h, f \in log :
        /\ h.op = "try_acquire" /\ f.op = "try_acquire"
        /\ h.by # f.by /\ h.key = f.key
        /\ h.ret = 1 /\ f.ret = 0
        /\ f.purged_at <= h.at /\ h.purged_at <= f.at /\ h.n < f.n

\* C11: a call (try_acquire or an enqueue with a dedupe key) made when every
\* lock taken on its key earlier has expired (expires_at <= now when the call
\* purges, or for enqueue when it runs) takes the key again.
C11_ExpiredKeyReacquired ==
    \A r \in log :
        ( /\ r.key # NoKey
          /\ \A h \in Acquired :
                (h.n < r.n /\ h.key = r.key) => h.until <= r.purged_at )
        => r.ret # 0

\* C12: for each tick category and each time bucket (calendar hour; day for
\* the case tick) at most one of the tick enqueues made in the bucket creates
\* an event row, whichever worker makes them and however often; the rows of the
\* table are exactly those creations.
C12_OneTickPerBucket ==
    /\ \A c \in Categories : \A b \in 0..MaxTime :
          Cardinality({r \in log : r.op = c /\ Bucket(c, r.at) = b /\ r.ret # 0}) <= 1
    /\ Cardinality({r \in log : r.ret # 0}) = Len(events)

\* two workers, and one of them twice, enqueued the case tick within one day:
\* the first call created the row, the others returned 0
C12_Witness ==
    \E a, b, d \in log :
        /\ a.op = "case_monitor" /\ b.op = "case_monitor" /\ d.op = "case_monitor"
        /\ a.by # b.by /\ b.by = d.by
        /\ a.n < b.n /\ b.n < d.n
        /\ Bucket("case_monitor", a.at) = Bucket("case_monitor", d.at)
        /\ a.ret # 0 /\ b.ret = 0 /\ d.ret = 0
        /\ Len(events) = 1

\* C13: the worker loop never ends because of an error: whatever raises
\* (claim, a handler, mark_done, mark_failed), no worker leaves its loop.
C13_LoopNeverExits == \A w \in Workers : pc[w] # "exited"

\* the iteration of worker w in which a handler or mark_done raised ends here
EndsFailedIteration(w) == pc[w] = "failing" /\ pc'[w] # "failing"

\* the except clause of w runs because an agent raised (not mark_done): an
\* agent of the event is still to return
HandlerRaised(w) ==
    pc[w] = "failing" /\ returned[w] # _dispatch_agents(events[ev[w]].event_type)

\* C14: the iteration in which a handler raised ends with the worker back at
\* the top of its loop and the event NEW with its lease cleared and last_error
\* recorded, or DEAD/FAILED; the event is not left PROCESSING.
C14_FailedIterationRequeues ==
    [][\A w \in Workers :
          (EndsFailedIteration(w) /\ HandlerRaised(w)) =>
              LET e == ev[w] IN
              /\ pc'[w] = "idle"
              /\ events'[e].status \in {"NEW", "DEAD", "FAILED"}
              /\ events'[e].locked_by = NoOwner
              /\ events'[e].locked_until = NoTime
              /\ events'[e].last_error # NoError]_vars

\* C15: a worker marks the event it holds DONE only when no agent is
\* registered for its type or every registered agent has returned in this
\* iteration, and in that case mark_done is what it does next (the event is
\* DONE unless mark_done itself raises); while an agent is still to run it
\* only runs agents, and the iteration in which something raised sets no
\* event DONE.
C15_DoneIffAllReturned ==
    [][\A w \in Workers :
          LET e == ev[w] IN
          /\ (pc[w] = "handling" /\ pc'[w] = "idle") =>
                /\ returned[w] = _dispatch_agents(events[e].event_type)
                /\ events'[e].status = "DONE"
          /\ (pc[w] = "handling" /\ pc'[w] = "handling"
                /\ returned[w] = _dispatch_agents(events[e].event_type)) =>
                returned'[w] = returned[w]
          /\ (pc[w] = "handling" /\ pc'[w] = "failing") => events' = events
          /\ EndsFailedIteration(w) =>
                \A i \in Ids : events'[i].status = "DONE" => events[i].status = "DONE"]_vars

\* an event with two agents failed once (an agent raised after the first had
\* returned, or mark_done raised) and was marked DONE at its second attempt
C15_Witness ==
    \E e \in Ids :
        /\ events[e].event_type = "AppointmentCreated"
        /\ events[e].status = "DONE"
        /\ events[e].attempts = 2
        /\ \A w \in Workers : pc[w] = "idle"

\* ---- C17, C18: conflict detection
\* the doctor-pass entry for appointment b in a detection result
Reported(found, b) ==
    \E k \in DOMAIN found : found[k] = [type |-> "DOCTOR", with_appointment_id |-> b]

\* the spec's two examples: appointment 1 at 10:00 for 30 minutes, and a second
\* appointment of the same doctor starting at t2
ExampleTable(t2) ==
    <<NewAppointment(1, 0, 1, 600, 0), NewAppointment(1, 0, 1, t2, 0)>>

\* detection on the two example tables
ExamplesAsStated ==
    /\ CreatedConflicts(ExampleTable(615), 1, 30, FirstInstant)
         = <<[type |-> "DOCTOR", with_appointment_id |-> 2]>>
    /\ CreatedConflicts(ExampleTable(630), 1, 30, FirstInstant) = <<>>

\* C17: detection for appointment a over [s, s + 30) reports another non-final
\* appointment b of the same doctor exactly when s < b.end and b.start < s + 30;
\* [10:00,10:30) against [10:15,10:45) is reported, against [10:30,11:00) is not
C17_OpenIntervalOverlap ==
    /\ \A a \in DOMAIN appointments : \A b \in DOMAIN appointments \ {a} :
         LET s == BusyStart(appointments[a])
             found == CreatedConflicts(appointments, a, 30, wallclock)
         IN (/\ appointments[a].doctor_id = appointments[b].doctor_id
             /\ appointments[b].status \notin TerminalSet)
            => (Reported(found, b)
                  <=> (s < BusyEnd(appointments[b]) /\ BusyStart(appointments[b]) < s + 30))
    /\ ExamplesAsStated

\* the last detection found nothing for an appointment whose window ends where
\* the window of another live appointment of the same doctor starts
C17_Witness ==
    /\ conflicts.appt # 0
    /\ conflicts.found = <<>>
    /\ \E b \in DOMAIN appointments \ {conflicts.appt} :
         /\ appointments[b].doctor_id = appointments[conflicts.appt].doctor_id
         /\ appointments[b].status \notin TerminalSet
         /\ BusyStart(appointments[b]) = conflicts.end_dt
    /\ CreatedConflicts(appointments, conflicts.appt, 30, wallclock) = <<>>

\* spellings of the four final statuses: case, one or two l, hyphen, space,
\* underscore, surrounding blanks
TerminalSpellings ==
    TerminalSet \cup {<<"C", "A", "N", "C", "E", "L", "L", "E", "D">>,
                      <<"c", "a", "n", "c", "e", "l", "l", "e", "d">>,
                      <<"C", "a", "n", "c", "e", "l", "e", "d">>,
                      <<" ", "C", "A", "N", "C", "E", "L", "E", "D", " ">>,
                      <<"C", "o", "m", "p", "l", "e", "t", "e", "d">>,
                      <<"c", "o", "m", "p", "l", "e", "t", "e", "d", " ">>,
                      <<"N", "O", "_", "S", "H", "O", "W">>,
                      <<"N", "o", "-", "S", "h", "o", "w">>,
                      <<"n", "o", " ", "s", "h", "o", "w">>,
                      <<"N", "o", "_", "s", "h", "o", "w">>}

\* an overlapping appointment in any of the final spellings is not reported
SpellingsExcluded ==
    \A st \in TerminalSpellings :
        CreatedConflicts([ExampleTable(615) EXCEPT ![2].status = st], 1, 30, FirstInstant) = <<>>

BlocksFor(a, b) ==
    /\ b # a
    /\ appointments[b].status \notin TerminalSet
    /\ \/ appointments[b].doctor_id = appointments[a].doctor_id
       \/ /\ appointments[a].operatory_id # 0
          /\ appointments[b].operatory_id = appointments[a].operatory_id

\* C19: every candidate the slot search returned starts at or after 09:00, ends
\* at start + duration at or before 18:00, and overlaps no busy window on its
\* day of a non-final appointment of the same doctor or room other than the
\* excluded one
C19_CandidatesInHoursAndFree ==
    suggested.called =>
        \A k \in DOMAIN suggested.out :
            LET c == suggested.out[k]
                s == c.date * 1440 + c.startTime
                e == s + c.predictedDurationMin
            IN /\ c.startTime >= 9 * 60
               /\ c.endTime = c.startTime + c.predictedDurationMin
               /\ c.endTime <= 18 * 60
               /\ \A b \in DOMAIN appointments :
                    (BlocksFor(suggested.appt, b) /\ appointments[b].scheduled_date = c.date)
                    => ~(s < BusyEnd(appointments[b]) /\ BusyStart(appointments[b]) < e)

\* the search returned candidates for today, the first of them starting where
\* the busy window of a live appointment of the other doctor in the same room
\* ends
C19_Witness ==
    /\ suggested.called
    /\ Len(suggested.out) > 1
    /\ \E b \in DOMAIN appointments :
         /\ BlocksFor(suggested.appt, b)
         /\ appointments[b].doctor_id # appointments[suggested.appt].doctor_id
         /\ BusyEnd(appointments[b]) = suggested.out[1].date * 1440 + suggested.out[1].startTime

\* C20: no candidate the slot search returned starts before the time of the
\* call plus the two-minute buffer, whatever the target date
C20_NoPastSlot ==
    suggested.called =>
        \A k \in DOMAIN suggested.out :
            suggested.out[k].date * 1440 + suggested.out[k].startTime >= suggested.now_dt + 2

\* ---- C16: concurrent handlers on one doctor's calendar
\* C16: no two appointments of one doctor are both Confirmed with overlapping
\* windows, however the handlers of two workers interleave
C16_NoOverlappingConfirmed ==
    \A a \in DOMAIN appointments : \A b \in DOMAIN appointments \ {a} :
        (/\ appointments[a].doctor_id = appointments[b].doctor_id
         /\ appointments[a].status = Confirmed
         /\ appointments[b].status = Confirmed)
        => ~(/\ BusyStart(appointments[a]) < BusyEnd(appointments[b])
             /\ BusyStart(appointments[b]) < BusyEnd(appointments[a]))

\* ---- C21, C22, C23: the slot search as a function of its arguments
\* the first grid start of a day: 09:00, or the earliest start if later, on
\* the target day only
GridFrom(day) ==
    IF day = suggested.target_date /\ suggested.start_time # NoTime
          /\ suggested.start_time > 9 * 60
    THEN suggested.start_time ELSE 9 * 60

\* minute m of `day` is an acceptable start on the grid that begins at g: it
\* ends by 18:00, is not in the past today, is not below the floor and
\* overlaps no window of a live appointment of the doctor on that day
AcceptableOn(day, m, g) ==
    LET s == day * 1440 + m
    IN /\ m >= g
       /\ (m - g) % 15 = 0
       /\ m + suggested.duration_min <= 18 * 60
       /\ day = suggested.now_dt \div 1440 => s >= suggested.now_dt + 2
       /\ suggested.min_start_dt # NoTime => s >= suggested.min_start_dt
       /\ \A b \in DOMAIN appointments :
            (/\ b # suggested.appt
             /\ appointments[b].doctor_id = suggested.doctor_id
             /\ appointments[b].status \notin TerminalSet
             /\ appointments[b].scheduled_date = day)
            => ~(/\ s < BusyEnd(appointments[b])
                 /\ BusyStart(appointments[b]) < s + suggested.duration_min)

AcceptableStarts(day, g) ==
    {m \in {g + 15 * i : i \in 0..((18 * 60 - g) \div 15)} : AcceptableOn(day, m, g)}

SearchRange ==
    suggested.target_date..(suggested.target_date
        + (IF suggested.days_ahead < 0 THEN 0 ELSE suggested.days_ahead))

DaysWithAvailability == {d \in SearchRange : AcceptableStarts(d, GridFrom(d)) # {}}

\* C21: the result of a search is empty exactly when no day from target_date to
\* target_date + days_ahead has an acceptable start; otherwise all its
\* candidates are dated the earliest such day
C21_EarliestDayOnly ==
    (suggested.called /\ suggested.doctor_id = 1) =>
        LET avail == DaysWithAvailability
        IN IF avail = {} THEN suggested.out = <<>>
           ELSE LET earliest == CHOOSE d \in avail : \A e \in avail : d <= e
                IN /\ suggested.out # <<>>
                   /\ \A k \in DOMAIN suggested.out : suggested.out[k].date = earliest

\* today is fully booked and the search, asked for today with one more day of
\* horizon, returned candidates dated tomorrow
C21_Witness ==
    /\ suggested.called
    /\ suggested.doctor_id = 1
    /\ suggested.target_date = 1
    /\ suggested.min_start_dt = NoTime
    /\ \E b \in DOMAIN appointments :
         /\ appointments[b].scheduled_date = 1
         /\ appointments[b].scheduled_time = 9 * 60
         /\ appointments[b].scheduled_end_time = 18 * 60
    /\ Len(suggested.out) > 1
    /\ suggested.out[1].date = 2

\* the candidates are the first min(limit, k) members, in ascending order, of
\* the set `starts` of acceptable starts of their day
FirstOf(starts) ==
    LET out == suggested.out
        k == Cardinality(starts)
    IN /\ Len(out) = IF suggested.limit < k THEN suggested.limit ELSE k
       /\ \A i \in DOMAIN out :
            /\ out[i].startTime \in starts
            /\ out[i].endTime = out[i].startTime + suggested.duration_min
            /\ out[i].predictedDurationMin = suggested.duration_min
            /\ i > 1 => out[i - 1].startTime < out[i].startTime
       /\ \A m \in starts :
            (\A i \in DOMAIN out : out[i].startTime # m) => m > out[Len(out)].startTime

\* the spec's example, for tomorrow: bookings 10:00-10:45, duration 30, limit 3
SlotExampleAsStated ==
    LET out == _suggest_slots(<<NewAppointment(1, 0, 2, 600, 45)>>, FirstInstant, 1, 2,
                              30, 0, 0, 3, 0, NoTime, NoTime)
    IN /\ Len(out) = 3
       /\ out[1] = [date |-> 2, startTime |-> 540, endTime |-> 570,
                    predictedDurationMin |-> 30]

\* C22 as amended: the candidates of a non-empty result are the first
\* min(limit, k) acceptable starts of their day, ascending, on the 15-minute
\* grid that begins at 09:00, or at the earliest start when it is later and the
\* day is the target day; with a booking 10:00-10:45 and duration 30 the first
\* candidate is 09:00-09:30
C22_FirstOnGridFromEarliestStart ==
    /\ (suggested.called /\ suggested.doctor_id = 1 /\ suggested.out # <<>>) =>
          FirstOf(AcceptableStarts(suggested.out[1].date,
                                   GridFrom(suggested.out[1].date)))
    /\ SlotExampleAsStated

\* C22 as stated: the same with the grid beginning at 09:00 in every call
C22_FirstOnGridFromNine ==
    (suggested.called /\ suggested.doctor_id = 1 /\ suggested.out # <<>>) =>
        FirstOf(AcceptableStarts(suggested.out[1].date, 9 * 60))

\* a search with earliest start 10:25 on its target day returned 10:25 first,
\* and stopped at its limit with more acceptable starts left
C22_Witness ==
    /\ suggested.called
    /\ suggested.doctor_id = 1
    /\ suggested.start_time = 625
    /\ suggested.limit = 2
    /\ Len(suggested.out) = 2
    /\ suggested.out[1].date = suggested.target_date
    /\ suggested.out[1].startTime = 625
    /\ Cardinality(AcceptableStarts(suggested.target_date, 625)) > 2

\* C23: with a floor given, no candidate is dated before the floor's date or
\* starts before the floor
C23_NotBeforeFloor ==
    (suggested.called /\ suggested.doctor_id = 1 /\ suggested.min_start_dt # NoTime) =>
        \A k \in DOMAIN suggested.out :
            /\ suggested.out[k].date >= suggested.min_start_dt \div 1440
            /\ suggested.out[k].date * 1440 + suggested.out[k].startTime
                  >= suggested.min_start_dt

\* a search from today with the floor at tomorrow 09:20 skipped today and
\* returned tomorrow 09:30 first, 09:00 and 09:15 being free of bookings
C23_Witness ==
    /\ suggested.called
    /\ suggested.doctor_id = 1
    /\ suggested.target_date = 1
    /\ suggested.min_start_dt = 2 * 1440 + 560
    /\ suggested.out # <<>>
    /\ suggested.out[1].date = 2
    /\ suggested.out[1].startTime = 570
    /\ \A b \in DOMAIN appointments : appointments[b].scheduled_date # 2

\* C30: claim never returns an event that was ineligible at the time of the
\* call (status not NEW, available_at in the future, or lease expiry in the
\* future): the row its SELECT picks is eligible in the state the SELECT reads,
\* the SELECT changes no row, the row returned is the row selected, and the
\* SELECT picks none exactly when no row is eligible
EligibleNow(e) ==
    /\ events[e].status = "NEW"
    /\ events[e].available_at <= now
    /\ events[e].locked_until = NoTime \/ events[e].locked_until <= now

C30_ClaimOnlyEligible ==
    [][/\ (SelectCandidate(events, now) = 0) <=> (\A e \in Ids : ~EligibleNow(e))
       /\ \A w \in Workers :
            /\ ClaimReturns(w) => ev'[w] = ev[w]
            /\ (pc[w] = "idle" /\ pc'[w] = "selected") =>
                  (EligibleNow(ev'[w]) /\ events' = events)]_vars

\* a worker has selected an eligible row while a row that sorts before it is
\* not eligible
C30_Witness ==
    \E w \in Workers : \E e \in Ids :
        /\ pc[w] = "selected"
        /\ EligibleNow(ev[w])
        /\ e # ev[w]
        /\ ~EligibleNow(e)
        /\ OrderBefore(events, e, ev[w])

\* ---- C24: a confirmed appointment of a case does not start before the floor
\* C24: for an appointment linked to a case, once the created handler or the
\* auto-schedule handler has confirmed it, the stored start is not earlier
\* than the healing-window floor the handler computed
C24_StoredStartNotBeforeFloor ==
    /\ (/\ conflicts.appt # 0
        /\ conflicts.min_start_dt # NoTime
        /\ appointments[conflicts.appt].status = Confirmed)
           => _fetch_appt_datetime(appointments[conflicts.appt]) >= conflicts.min_start_dt
    /\ (/\ suggested.called
        /\ suggested.min_start_dt # NoTime
        /\ suggested.out # <<>>)
           => _fetch_appt_datetime(appointments[suggested.appt]) >= suggested.min_start_dt

\* ---- C25: the healing-window floor
\* the example: a stage of 7 healing days and reference day 1 at 00:00 give
\* day 8 at 00:00, or now when now is later
FloorExampleAsStated ==
    /\ _case_stage_healing(<<"W", "A", "I", "T", "I", "N", "G", "_", "O", "N", "_", "P", "A", "T", "I", "E", "N", "T">>) = 7
    /\ _calculate_case_min_start(7, 1 * MinutesPerDay, FirstInstant) = 8 * MinutesPerDay
    /\ _calculate_case_min_start(7, 1 * MinutesPerDay, 9 * MinutesPerDay + 5)
          = 9 * MinutesPerDay + 5

\* C25: the floor is max(reference + stage days, now) with a reference that
\* does not depend on the start being requested: the created handler and the
\* auto-schedule handler give two appointments of the same case the same
\* floor at the same time
C25_FloorFromCaseAlone ==
    /\ FloorExampleAsStated
    /\ \A a, b \in DOMAIN appointments :
         (appointments[a].linked_case_id # 0
            /\ appointments[a].linked_case_id = appointments[b].linked_case_id)
         => /\ CreatedFloor(appointments, a, wallclock)
                 = CreatedFloor(appointments, b, wallclock)
            /\ ScheduleFloor(appointments, wallclock, a, NoTime)
                 = ScheduleFloor(appointments, wallclock, b, NoTime)

\* ---- C26: what the created handler confirms
\* the step of on_appointment_created for appointment a
CreatedStep(a) == conflicts = NoDetect /\ conflicts'.appt = a

\* _detect_conflicts was called in that step: a start and a doctor were known
DetectionRan(a) == conflicts'.start_dt # NoTime /\ appointments[a].doctor_id # 0

\* C26: the created handler confirms a requested appointment exactly when
\* conflict detection ran on its window and found nothing; with conflicts the
\* status stays requested and alternatives are searched; without a start or
\* without a doctor the appointment is not confirmed
C26_ConfirmedIffDetectedFree ==
    [][\A a \in DOMAIN appointments :
         (CreatedStep(a) /\ appointments[a].status = Requested)
         => /\ (appointments'[a].status = Confirmed)
                 <=> (DetectionRan(a) /\ conflicts'.found = <<>>)
            /\ conflicts'.found # <<>>
                 => (appointments'[a].status = Requested /\ conflicts'.searched)
            /\ ~DetectionRan(a) => appointments'[a].status # Confirmed]_vars

\* ---- C27: what the auto-schedule handler writes
\* the step of on_appointment_auto_schedule_requested for appointment a
AutoScheduleStep(a) == suggested = NoSuggest /\ suggested'.called /\ suggested'.appt = a

\* slot x is not later than slot y
NotLater(x, y) ==
    \/ x.date < y.date
    \/ x.date = y.date /\ x.startTime <= y.startTime

\* C27: when the search returns candidates the handler writes the earliest one
\* as the start and the end of the appointment and confirms it, and touches no
\* other row; when it returns none the table is left as it was
C27_WritesEarliestOrNothing ==
    [][\A a \in DOMAIN appointments :
         AutoScheduleStep(a)
         => LET out == suggested'.out
            IN IF out = <<>>
               THEN appointments' = appointments
               ELSE /\ \A k \in DOMAIN out : NotLater(out[1], out[k])
                    /\ appointments'[a].scheduled_date = out[1].date
                    /\ appointments'[a].scheduled_time = out[1].startTime
                    /\ appointments'[a].scheduled_end_time = out[1].endTime
                    /\ appointments'[a].status = Confirmed
                    /\ \A b \in DOMAIN appointments \ {a} :
                         appointments'[b] = appointments[b]]_vars

\* the search of the handler found no slot within its horizon for a requested
\* appointment that has a date: the healing window ends after the horizon
C27_Witness ==
    /\ suggested.called
    /\ suggested.out = <<>>
    /\ suggested.min_start_dt # NoTime
    /\ appointments[suggested.appt].status = Requested
    /\ appointments[suggested.appt].scheduled_date = suggested.target_date

\* ---- C28: end to end
\* worker w ends a loop iteration: it leaves the handling of its event
IterationEnds(w) == pc[w] = "handling" /\ pc'[w] # "handling"

\* no other appointment of the doctor of a on the date of a
AloneThatDate(appts, a) ==
    \A b \in DOMAIN appts \ {a} :
        ~(appts[b].doctor_id = appts[a].doctor_id
            /\ appts[b].scheduled_date = appts[a].scheduled_date)

\* the event rows of appointment a
EventsOf(evs, a) == {e \in DOMAIN evs : evs[e].payload = a}

\* C28: when the worker has run one loop iteration on the AppointmentCreated
\* event of an appointment whose doctor has no other booking that date, the
\* appointment is confirmed and there is exactly one event row for it, DONE
C28_EndToEndConfirmedAndDone ==
    [][\A w \in Workers :
         IterationEnds(w)
         => LET a == events[ev[w]].payload
            IN AloneThatDate(appointments', a)
               => /\ appointments'[a].status = Confirmed
                  /\ EventsOf(events', a) = {ev[w]}
                  /\ events'[ev[w]].status = _event_status_done]_vars

\* the event of an appointment is DONE and the appointment is confirmed,
\* while the doctor has a second appointment on another date
C28_Witness ==
    \E e \in DOMAIN events :
        /\ events[e].status = _event_status_done
        /\ Len(appointments) = 2
        /\ AloneThatDate(appointments, events[e].payload)
        /\ appointments[events[e].payload].status = Confirmed

\* ---- C29: a failing notification sink
\* C29: where the only thing that can fail is the notification sink, every
\* loop iteration ends with the handlers returned and the event marked DONE:
\* the worker never goes to mark_failed and the event is not requeued
C29_SinkFailureLeavesEventDone ==
    [][\A w \in Workers :
         IterationEnds(w)
         => /\ pc'[w] = "idle"
            /\ events'[ev[w]].status = _event_status_done]_vars

\* ---- C31: what a claim changes
\* C31: a claim that returns a row changes that row and no other: its status
\* becomes PROCESSING, its owner the calling worker, its lease expiry now plus
\* the lease seconds, its attempts one more, its last error is cleared, and
\* its other columns stay
C31_ClaimChangesOnlyItsRow ==
    [][\A w \in Workers :
         ClaimReturns(w)
         => LET e == ev[w]
            IN /\ DOMAIN events' = DOMAIN events
               /\ \A o \in Ids \ {e} : events'[o] = events[o]
               /\ events'[e].status = "PROCESSING"
               /\ events'[e].locked_by = w
               /\ events'[e].locked_until = now + LockSeconds
               /\ events'[e].attempts = events[e].attempts + 1
               /\ events'[e].last_error = NoError
               /\ events'[e].priority = events[e].priority
               /\ events'[e].available_at = events[e].available_at
               /\ events'[e].max_attempts = events[e].max_attempts
               /\ events'[e].event_type = events[e].event_type]_vars

\* a row that failed before is claimed again, its error cleared, next to
\* another row
C31_Witness ==
    \E w \in Workers :
        /\ pc[w] = "handling"
        /\ Len(events) = 2
        /\ events[ev[w]].attempts = 2
        /\ events[ev[w]].last_error = NoError
        /\ events[ev[w]].locked_by = w

\* ---- C32: a failure that leaves retry budget
\* the row has retry budget left and is waiting out the retry delay
\* mark_failed gave it
InRetryDelay(e) ==
    /\ events[e].status = "NEW"
    /\ events[e].last_error # NoError
    /\ events[e].attempts < events[e].max_attempts
    /\ events[e].available_at > now

\* C32: mark_failed on an event with attempts < max_attempts makes it NEW
\* with the lease cleared, the error recorded and available_at = now + the
\* retry delay, and no claim returns the event while that delay runs
C32_RequeuedWithDelay ==
    [][\A w \in Workers :
         /\ (pc[w] = "failing" /\ pc'[w] = "idle"
               /\ events[ev[w]].attempts < events[ev[w]].max_attempts)
            => /\ events'[ev[w]].status = "NEW"
               /\ events'[ev[w]].locked_by = NoOwner
               /\ events'[ev[w]].locked_until = NoTime
               /\ events'[ev[w]].last_error # NoError
               /\ events'[ev[w]].available_at = now + RetryDelaySec
         /\ ClaimReturns(w) => ~InRetryDelay(ev[w])]_vars

\* ---- C33: one event at a time
\* the PROCESSING rows whose lease owner is w, in table evs
OwnedBy(evs, w) ==
    {e \in DOMAIN evs : evs[e].status = "PROCESSING" /\ evs[e].locked_by = w}

\* C33: a worker is the lease owner of at most one PROCESSING event, and it
\* starts a claim only when it owns none: the outcome of the event it claimed
\* before has been recorded
C33_OneLeasePerWorker ==
    [][\A w \in Workers :
         /\ Cardinality(OwnedBy(events, w)) <= 1
         /\ Cardinality(OwnedBy(events', w)) <= 1
         /\ (pc[w] = "idle" /\ pc'[w] = "selected") => OwnedBy(events, w) = {}]_vars

\* the worker is handling its second event after the first was marked DONE
C33_Witness ==
    \E w \in Workers :
        /\ pc[w] = "handling"
        /\ ev[w] = 2
        /\ OwnedBy(events, w) = {2}
        /\ events[1].status = "DONE"

\* ---- C34: the order of the handlers
\* the registration order for AppointmentCompleted
CompletedOrderAsStated ==
    _dispatch_agents("AppointmentCompleted")
        = <<"AppointmentAgent", "RevenueAgent", "InventoryAgent">>

\* C34: the agents of an event are invoked in their registration order; once
\* an agent has raised no further agent is invoked in that attempt; and the
\* attempt after a claim starts again from the first agent
C34_HandlersInOrderFromFirst ==
    [][/\ CompletedOrderAsStated
       /\ \A w \in Workers :
            /\ (pc'[w] = "handling" /\ ev'[w] # 0)
               => returned'[w] = SubSeq(_dispatch_agents(events'[ev'[w]].event_type),
                                        1, Len(returned'[w]))
            /\ (pc[w] = "handling" /\ pc'[w] = "handling")
               => Len(returned'[w]) <= Len(returned[w]) + 1
            /\ pc[w] = "failing" => returned'[w] \in {returned[w], <<>>}
            /\ ClaimReturns(w) => returned'[w] = <<>>]_vars

\* the second attempt of an AppointmentCompleted event has run all three
\* agents
C34_Witness ==
    \E w \in Workers :
        /\ pc[w] = "handling"
        /\ events[ev[w]].event_type = "AppointmentCompleted"
        /\ events[ev[w]].attempts = 2
        /\ returned[w] = <<"AppointmentAgent", "RevenueAgent", "InventoryAgent">>

\* ---- C35: what a monitor tick marks as a no-show
\* the row is scheduled on the day of now_dt and now_dt is past its start plus
\* the no-show grace
DueNoShow(appt, now_dt) ==
    /\ appt.scheduled_date = now_dt \div MinutesPerDay
    /\ _fetch_appt_datetime(appt) # NoTime
    /\ now_dt > _fetch_appt_datetime(appt) + GRACE_MIN_NO_SHOW

FinalNow(appt) == _is_final_status(_norm_status(appt.status))

\* a step of worker w's sweep
SweepActs(w) == sweep'[w] # sweep[w]

\* C35: a status that a step of a monitor sweep changes belongs to an
\* appointment that was not in a final status, is scheduled today and is past
\* start + no-show grace, and it becomes No-show; and when the sweep returns,
\* every appointment of today that is past start + no-show grace at the
\* sweep's now is in a final status
C35_SweepMarksDueRowsOnly ==
    [][\A w \in Workers : SweepActs(w) =>
          /\ \A a \in DOMAIN appointments :
                appointments'[a].status # appointments[a].status =>
                    /\ ~FinalNow(appointments[a])
                    /\ DueNoShow(appointments[a], sweep[w].now_dt)
                    /\ appointments'[a].status = NoShow
          /\ (sweep[w].st = "rows" /\ sweep[w].rows = <<>>) =>
                \A a \in DOMAIN appointments :
                    DueNoShow(appointments[a], sweep[w].now_dt)
                        => FinalNow(appointments[a])]_vars

\* ---- C36: the delay signal
\* the rows of the notifications table for one appointment, recipient and type
Signals(notes, a, to, type) ==
    {i \in DOMAIN notes : notes[i].appt = a /\ notes[i].to = to
                          /\ notes[i].notif_type = type}

DelayOnce(notes) ==
    \A a \in 1..MaxAppts, to \in {"doctor", "admin"} :
        Cardinality(Signals(notes, a, to, "delay")) <= 1

\* worker w's sweep is in the delay branch of a row
InDelayBranch(w) ==
    /\ sweep[w].st = "rows" /\ sweep[w].rows # <<>>
    /\ Head(sweep[w].rows).branch = "delay"

\* C36: whatever the number of sweeps and of workers running them, the
\* notifications table holds at most one delay notification for an appointment
\* and a recipient, and a step of the delay branch leaves every appointment as
\* it is; the branch is taken for a row past start + delay grace and not past
\* start + no-show grace
C36_DelaySignalledOnce ==
    [][/\ DelayOnce(notifications) /\ DelayOnce(notifications')
       /\ \A w \in Workers : (InDelayBranch(w) /\ SweepActs(w)) =>
              /\ appointments' = appointments
              /\ LET a == appointments[Head(sweep[w].rows).id]
                     start_dt == _fetch_appt_datetime(a)
                 IN /\ sweep[w].now_dt > start_dt + GRACE_MIN_DELAY
                    /\ sweep[w].now_dt <= start_dt + GRACE_MIN_NO_SHOW]_vars

\* both workers are past the doctor's notification of the same delayed
\* appointment, and the doctor has one
C36_Witness ==
    /\ \A w \in Workers : /\ InDelayBranch(w)
                          /\ Head(sweep[w].rows).id = 1
                          /\ sweep[w].step = 1
    /\ Cardinality(Signals(notifications, 1, "doctor", "delay")) = 1

\* ---- C37: the heartbeat's count
\* C37: count_pending_events returns the number of rows that are NEW, have
\* available_at <= now and a lease expiry that is null or past, and it is 0
\* exactly when the SELECT of a claim at the same instant finds no row
C37_CountMatchesClaim ==
    /\ count_pending_events(events, now) = Cardinality({e \in Ids : EligibleNow(e)})
    /\ (count_pending_events(events, now) = 0) <=> (SelectCandidate(events, now) = 0)

\* one row is counted, the other waits out its retry delay
C37_Witness ==
    /\ Len(events) = 2
    /\ count_pending_events(events, now) = 1
    /\ \E e \in Ids : InRetryDelay(e)

\* ---- C38: DONE and DEAD
\* C38: DONE and DEAD are absorbing: no step of a worker loop (claim,
\* mark_done, mark_failed) changes the status of an event that is DONE or
\* DEAD, and no claim returns a DONE event
C38_DoneAndDeadAbsorbing ==
    [][/\ \A e \in Ids : events[e].status \in {"DONE", "DEAD"}
                            => events'[e].status = events[e].status
       /\ \A w \in Workers : ClaimReturns(w) => events[ev[w]].status # "DONE"]_vars

\* ---- C39: enqueue_event with a dedupe key
\* an event row enqueued under key k: a tick of the key's category made in the
\* key's bucket
EventOf(k) ==
    \E e \in Ids, c \in Categories :
        /\ events[e].event_type = TickType(c)
        /\ TickKey(c, events[e].available_at) = k

\* C39: in every committed state the key of an enqueue has a row in
\* idempotency_locks exactly when its event row exists: an enqueue whose event
\* INSERT fails after its lock INSERT leaves no lock row behind
C39_KeyIffEvent ==
    \A k \in TickKeys : (locks[k] # NoRow) <=> EventOf(k)

\* an event INSERT has failed after the lock INSERT of its key, while other
\* keys are held
C39_Witness ==
    \E w \in Workers : \E p \in tx[w] :
        /\ locks[p[1]] = NoRow
        /\ ~EventOf(p[1])
        /\ Len(events) >= 1

\* ---- C40: what the rollback of a failed attempt leaves
\* a handler of worker w raises in this step
HandlerRaises(w) == pc[w] = "handling" /\ pc'[w] = "failing"

\* the row of appointment a is as the backend booked it
AsBooked(appts, a) ==
    appts[a] = NewAppointment(appts[a].doctor_id, appts[a].operatory_id,
                              appts[a].scheduled_date, appts[a].scheduled_time, 0)

\* C40: when a handler raises, no write of the attempt to the appointments
\* table is committed: the raising handler leaves the table as it found it,
\* and when the attempt is the event's first, the event's appointment is as
\* it was booked
C40_FailedAttemptLeavesNoWrite ==
    [][\A w \in Workers :
         HandlerRaises(w)
         => /\ appointments' = appointments
            /\ events[ev[w]].attempts = 1
                  => AsBooked(appointments', events[ev[w]].payload)]_vars

====
